---------------------------- MODULE Spec2Model ----------------------------
(***************************************************************************)
(* Stability-testing backends (sponsor, CRO, regulator) over FHIR          *)
(* repositories.  The repositories are maps from resource id to resource;  *)
(* every handler is one action, except share_protocol, whose loop over the *)
(* target organizations is taken one target per step (pc tracks the        *)
(* position; nothing else can run while a share call is in progress).      *)
(*                                                                         *)
(* Encoding of FHIR JSON:                                                  *)
(*   extension  : sequence of [url, value]; value is a sequence of strings *)
(*                (valueString s -> <<s>>, valueBoolean true -> <<"true">>,*)
(*                valueReference "T/i" -> <<"T", "i">>, a list of          *)
(*                sub-extensions holding "Organization/<id>" references -> *)
(*                the sequence of the ids)                                 *)
(*   meta.tag   : sequence of tag codes of system example.org/fhir/tags    *)
(*   a missing key of a dict is a missing field of the record, or the      *)
(*   hasMeta flag for "meta"                                               *)
(*   valueInteger n -> <<n>>; an Optional[Dict] is <<>> or <<d>>, d a set  *)
(*   of <<key, value>> pairs                                               *)
(*                                                                         *)
(* The codecs of the CRO backend are pure functions: SpecCodec draws an    *)
(* entity or a stored resource in its initial state and applies them.      *)
(***************************************************************************)
EXTENDS Integers, Sequences, FiniteSets, TLC

VARIABLES
    spPlanDefinition,      \* sponsor repository: PlanDefinition by id
    spActivityDefinition,  \* sponsor repository: ActivityDefinition by id
    spMedication,          \* sponsor repository: Medication by id
    spOrganization,        \* sponsor repository: Organization by id
    created_batches,       \* the create_batch calls that succeeded: <<id, request>>
    pc,                    \* position of the share_protocol call
    share_request,         \* the request being served (protocol_id + body)
    protocol_load,         \* what the repository answered to the protocol GET
    existing_protocol,     \* share_protocol's local copy of the protocol
    share_results,         \* share_protocol's local result list
    batch_errors,          \* batches whose marking failed (the handler only prints them)
    outcomes,              \* what the network answered for each target so far
    sent,                  \* requests the current share call issued to targets
    response,              \* last sponsor response
    croFhir,               \* CRO repository: resource type -> id -> resource
    croNextId,             \* CRO repository: the next id it assigns
    forwarded,             \* ids of the Observations delivered to the sponsor's server
    croResponse,           \* last CRO request and its response
    regObservation,        \* regulator repository: Observation by id
    regResponse,           \* last regulator request and its response
    codec_entity,          \* CRO codec: the model value handed to an encoder
    codec_resource,        \* CRO codec: the FHIR resource handed to a decoder
    codec_decoded          \* CRO codec: what the decoder returned or raised

spVars == <<spPlanDefinition, spActivityDefinition, spMedication, spOrganization,
            created_batches>>
shareVars == <<pc, share_request, protocol_load, existing_protocol, share_results,
               batch_errors, outcomes, sent, response>>
croVars == <<croFhir, croNextId, forwarded, croResponse>>
regVars == <<regObservation, regResponse>>
codecVars == <<codec_entity, codec_resource, codec_decoded>>
vars == <<spVars, shareVars, croVars, regVars, codecVars>>

---------------------------------------------------------------------------
(* Bounds *)

MaxTargets == 2

---------------------------------------------------------------------------
(* Extension urls and tag codes used by the backends *)

SharedOrganizationsUrl == "plan-definition-shared-organizations"
SponsorUrl == "sponsor"
SponsorIdUrl == "sponsor-id"
SharedDateUrl == "sharedDate"
SharedWithCROUrl == "sharedWithCRO"
SponsorOrganizationUrl == "sponsor-organization"
PartialShareUrl == "plan-definition-partial-share"
StabilityTestDefinitionsUrl == "stability-test-definitions"
StabilityTestProtocolUrl == "stability-test-protocol"
BatchSharedWithCroUrl == "shared-with-cro"
BatchSharedWithOrganizationsUrl == "shared-with-organizations"
MedicationTypeUrl == "medication-type"
BatchProtocolUrl == "batch-protocol"
SharedProtocolTag == "shared-protocol"
SharedBatchTag == "shared-batch"

ResourceTypes == {"PlanDefinition", "ActivityDefinition", "Device", "Medication",
                  "Observation", "Organization"}

\* no request has been served yet
NoCall == [op |-> "none", id |-> "", fhir |-> "ok", status |-> 0, detail |-> "", body |-> <<>>]

\* a request (op, id), what the repository did while it was served (fhir) and
\* the response (status, detail, body)
Call(op, id, fhir, status, detail, body) ==
    [op |-> op, id |-> id, fhir |-> fhir, status |-> status, detail |-> detail, body |-> body]

\* Python's None for an Optional[str] field
None == "<None>"

Ext(u, v) == [url |-> u, value |-> v]
HasExt(res, u) == \E k \in 1..Len(res.extension) : res.extension[k].url = u
WithoutExt(exts, u) == SelectSeq(exts, LAMBDA e : e.url # u)

Range(s) == {s[k] : k \in 1..Len(s)}

---------------------------------------------------------------------------
(* Sponsor backend: the data the model runs on *)

ProtocolIds == {"P1", "P2"}
OrganizationIds == {"O1", "O2", "O3"}
ActivityDefinitionIds == <<"T1", "T2", "T3">>
ShareModes == {"fullProtocol", "specificTests"}
\* selected_tests of a request: nothing, or one test definition and one timepoint
SelectionChoices == {{}, {"T1", "TP1"}}
\* urls that contain "/fhir" (the CRO middleware is tried for them)
UrlsWithFhirPath == {"http://cro1:8001/fhir"}

Ref(type, id) == <<type, id>>

InitialProtocol(hasMeta) ==
    [resourceType |-> "PlanDefinition", id |-> "P1", status |-> "active",
     hasMeta |-> hasMeta, tag |-> <<>>,
     extension |-> <<Ext(SponsorUrl, <<"Acme">>), Ext(SponsorIdUrl, <<"SP-1">>),
                     Ext(StabilityTestDefinitionsUrl, <<"T1", "T2">>)>>,
     action |-> <<[id |-> "A1", action |-> <<"TP1", "TP2">>],
                  [id |-> "A2", action |-> <<>>]>>]

InitialTests ==
    [t \in {"T1", "T2", "T3"} |->
        [resourceType |-> "ActivityDefinition", id |-> t,
         extension |-> <<Ext(StabilityTestProtocolUrl,
                             Ref("PlanDefinition", IF t = "T3" THEN "P2" ELSE "P1"))>>]]

InitialBatches ==
    [b \in {"B1"} |->
        [resourceType |-> "Medication", id |-> b, hasMeta |-> TRUE, tag |-> <<>>,
         identifier |-> <<"P1">>, extension |-> <<>>]]

\* O1 is a CRO reached through its middleware, O2 a plain FHIR server,
\* O3 has no endpoint configured
InitialOrganizations ==
    [o \in OrganizationIds |->
        [resourceType |-> "Organization", id |-> o,
         name |-> CASE o = "O1" -> "CRO One" [] o = "O2" -> "CRO Two" [] OTHER -> "CRO Three",
         url |-> CASE o = "O1" -> "http://cro1:8001/fhir" [] o = "O2" -> "http://cro2:8080/base"
                   [] OTHER -> "",
         api_key |-> CASE o = "O1" -> "key-1" [] o = "O2" -> "key-2" [] OTHER -> ""]]

OrganizationLists == UNION {[1..n -> OrganizationIds] : n \in 0..MaxTargets}

ShareRequests ==
    [protocol_id : ProtocolIds,
     organization_ids : OrganizationLists,
     share_mode : ShareModes,
     selected_tests : SelectionChoices,
     shareBatches : {TRUE},
     selectedBatches : {<<>>}]

\* what the network does to one target's processing: at most one of the
\* requests on its path fails
TargetOutcomes == {"ok", "orgStatus", "orgRaise", "testsFail", "reject", "unreachable"}

NoResponse == [status |-> 0, share_results |-> <<>>, batches_shared |-> 0]

NoRequest ==
    [protocol_id |-> "P1", organization_ids |-> <<>>, share_mode |-> "fullProtocol",
     selected_tests |-> {}, shareBatches |-> TRUE, selectedBatches |-> <<>>]

\* no share call is running
ShareIdle ==
    /\ pc = "idle"
    /\ share_request = NoRequest
    /\ protocol_load = "none"
    /\ existing_protocol = InitialProtocol(TRUE)
    /\ share_results = <<>>
    /\ batch_errors = <<>>
    /\ outcomes = <<>>
    /\ sent = <<>>
    /\ response = NoResponse

---------------------------------------------------------------------------
(* share_protocol, steps 1-3: load, record the intent locally, mark batches *)

\* requests.Response.__bool__ is Response.ok: false for a 4xx/5xx answer
ResponseTruthy(status) == status < 400

\* except requests.RequestException as e:
\*     if e.response and e.response.status_code == 404: 404   else: 500
\* hasResponse is false for a connection failure (e.response is None)
ProtocolLoadFailureStatus(hasResponse, status) ==
    IF hasResponse /\ ResponseTruthy(status) /\ status = 404 THEN 404 ELSE 500

\* the new sharing extension is appended and the earlier ones stay
WithSharingExtensionAppended(protocol, organization_ids) ==
    [protocol EXCEPT !.extension =
        IF organization_ids # <<>>
        THEN Append(@, Ext(SharedOrganizationsUrl, organization_ids))
        ELSE @]

\* the sharing extension replaces any earlier one; none is added for no targets
WithSharingExtension(protocol, organization_ids) ==
    LET kept == WithoutExt(protocol.extension, SharedOrganizationsUrl)
    IN [protocol EXCEPT !.extension =
            IF organization_ids # <<>>
            THEN Append(kept, Ext(SharedOrganizationsUrl, organization_ids))
            ELSE kept]

\* one batch of the local marking loop
MarkedBatch(batch, organization_ids) ==
    [batch EXCEPT !.extension =
        WithoutExt(batch.extension, BatchSharedWithCroUrl)
            \o <<Ext(BatchSharedWithCroUrl, <<"true">>),
                 Ext(BatchSharedWithOrganizationsUrl, organization_ids),
                 Ext(MedicationTypeUrl, <<"stability-batch">>)>>]

\* the positions of batch_ids whose GET or PUT fails: the absent batches and
\* those the repository turns down (failed)
FailedMarkings(medications, batch_ids, failed) ==
    {k \in 1..Len(batch_ids) : k \in failed \/ batch_ids[k] \notin DOMAIN medications}

RECURSIVE MarkBatches(_, _, _, _, _)
\* the marking loop from position k on: a batch whose load or update fails is
\* left as it is and the loop goes on
MarkBatches(medications, batch_ids, organization_ids, k, failed) ==
    IF k > Len(batch_ids) THEN medications
    ELSE LET b == batch_ids[k]
             next == IF k \notin FailedMarkings(medications, batch_ids, failed)
                     THEN [medications EXCEPT ![b] = MarkedBatch(medications[b], organization_ids)]
                     ELSE medications
         IN MarkBatches(next, batch_ids, organization_ids, k + 1, failed)

ShareFails(status) ==
    /\ pc' = "done"
    /\ response' = [status |-> status, share_results |-> <<>>, batches_shared |-> 0]
    /\ share_results' = <<>>
    /\ batch_errors' = <<>>
    /\ outcomes' = <<>>
    /\ sent' = <<>>

\* getOutcome: "ok", "status" (the repository answers with an error status:
\* 404 for an absent protocol, 500 otherwise) or "raise" (no answer at all)
\* failed: the positions of selectedBatches the repository fails to load or update
ShareBegin(req, getOutcome, putOk, failed) ==
    /\ pc = "idle"
    /\ share_request' = req
    /\ protocol_load' = CASE getOutcome = "raise" -> "raise"
                          [] req.protocol_id \notin DOMAIN spPlanDefinition -> "404"
                          [] getOutcome = "status" -> "500"
                          [] OTHER -> "200"
    /\ LET pid == req.protocol_id
           present == pid \in DOMAIN spPlanDefinition
       IN IF getOutcome = "raise"
          THEN /\ ShareFails(ProtocolLoadFailureStatus(FALSE, 0))
               /\ UNCHANGED <<existing_protocol, spVars>>
          ELSE IF getOutcome = "status" \/ ~present
          THEN /\ ShareFails(ProtocolLoadFailureStatus(TRUE, IF present THEN 500 ELSE 404))
               /\ UNCHANGED <<existing_protocol, spVars>>
          ELSE LET updated == WithSharingExtension(spPlanDefinition[pid], req.organization_ids)
               IN /\ existing_protocol' = updated
                  /\ IF ~putOk
                     THEN /\ ShareFails(500)
                          /\ UNCHANGED spVars
                     ELSE /\ spPlanDefinition' = [spPlanDefinition EXCEPT ![pid] = updated]
                          /\ spMedication' =
                                IF req.shareBatches
                                THEN MarkBatches(spMedication, req.selectedBatches,
                                                 req.organization_ids, 1, failed)
                                ELSE spMedication
                          /\ batch_errors' =
                                IF req.shareBatches
                                THEN LET bad == FailedMarkings(spMedication,
                                                               req.selectedBatches, failed)
                                         at == SelectSeq([k \in 1..Len(req.selectedBatches) |-> k],
                                                         LAMBDA k : k \in bad)
                                     IN [j \in 1..Len(at) |-> req.selectedBatches[at[j]]]
                                ELSE <<>>
                          /\ UNCHANGED <<spActivityDefinition, spOrganization,
                                         created_batches>>
                          /\ pc' = "targets"
                          /\ share_results' = <<>>
                          /\ outcomes' = <<>>
                          /\ sent' = <<>>
                          /\ response' = NoResponse
    /\ UNCHANGED <<croVars, regVars, codecVars>>

---------------------------------------------------------------------------
(* share_protocol, step 4: one target organization *)

ResultWithName(org_id, name, success, message) ==
    [organization_id |-> org_id, organization_name |-> name,
     success |-> success, message |-> message]

ResultWithoutName(org_id, message) ==
    [organization_id |-> org_id, success |-> FALSE, message |-> message]

\* meta.tag.append on a shallow copy: the tag list is the caller's whenever the
\* protocol came with a "meta" of its own
TagAppended(protocol) ==
    [protocol EXCEPT !.hasMeta = TRUE, !.tag = Append(@, SharedProtocolTag)]

AfterTagAppend(protocol) ==
    IF protocol.hasMeta THEN [protocol EXCEPT !.tag = Append(@, SharedProtocolTag)]
    ELSE protocol

IsForProtocol(test, protocol_id) ==
    \E k \in 1..Len(test.extension) :
        /\ test.extension[k].url = StabilityTestProtocolUrl
        /\ test.extension[k].value = Ref("PlanDefinition", protocol_id)

\* the ActivityDefinitions that reference the protocol, as bundle entries
AssociatedTests(protocol_id, share_mode, selected_tests) ==
    LET ids == SelectSeq(ActivityDefinitionIds,
                         LAMBDA t : /\ t \in DOMAIN spActivityDefinition
                                    /\ IsForProtocol(spActivityDefinition[t], protocol_id))
    IN [k \in 1..Len(ids) |-> spActivityDefinition[ids[k]]]

\* the export copy of one selected batch
ExternalBatch(batch, protocol, protocol_id) ==
    LET sponsorExts == SelectSeq(protocol.extension,
                                 LAMBDA e : e.url \in {SponsorUrl, SponsorIdUrl})
        withSponsor == batch.extension \o sponsorExts
        hasRef == \E k \in 1..Len(withSponsor) : withSponsor[k].url = BatchProtocolUrl
        first == CHOOSE k \in 1..Len(withSponsor) :
                    /\ withSponsor[k].url = BatchProtocolUrl
                    /\ \A j \in 1..(k - 1) : withSponsor[j].url # BatchProtocolUrl
    IN [batch EXCEPT
            !.hasMeta = TRUE,
            !.tag = Append(@, SharedBatchTag),
            !.identifier = IF protocol_id \in Range(@) THEN @ ELSE Append(@, protocol_id),
            !.extension =
                IF hasRef
                THEN [withSponsor EXCEPT ![first].value = Ref("PlanDefinition", protocol_id)]
                ELSE Append(withSponsor,
                            Ext(BatchProtocolUrl, Ref("PlanDefinition", protocol_id)))]

AssociatedBatches(req, protocol) ==
    IF req.shareBatches /\ req.selectedBatches # <<>>
    THEN LET ids == SelectSeq(req.selectedBatches, LAMBDA b : b \in DOMAIN spMedication)
         IN [k \in 1..Len(ids) |-> ExternalBatch(spMedication[ids[k]], protocol,
                                                 req.protocol_id)]
    ELSE <<>>

RECURSIVE Dedup(_)
Dedup(s) ==
    IF s = <<>> THEN <<>>
    ELSE LET rest == Dedup(SelectSeq(Tail(s), LAMBDA x : x # Head(s)))
         IN <<Head(s)>> \o rest

\* add_referenced_resource over the shared-organizations extension: every
\* Organization the protocol names that the local repository can return
ReferencedOrganizations(protocol) ==
    LET named == IF HasExt(protocol, SharedOrganizationsUrl)
                 THEN (CHOOSE e \in Range(protocol.extension) :
                            e.url = SharedOrganizationsUrl).value
                 ELSE <<>>
        found == Dedup(SelectSeq(named, LAMBDA o : o \in DOMAIN spOrganization))
    IN [k \in 1..Len(found) |-> spOrganization[found[k]]]

\* "/fhir" in url: the bundle goes to the CRO middleware instead
TargetUrl(url) == IF url \in UrlsWithFhirPath THEN "/sponsor/shared-resources" ELSE url

Submission(org, kind, target, protocol, tests, batches, organizations, status) ==
    [to |-> org.id, kind |-> kind, target |-> target, authorization |-> org.api_key,
     protocol |-> protocol, tests |-> tests, batches |-> batches,
     organizations |-> organizations, status |-> status]

\* the transaction-bundle branch (lines 1255-1601)
BundleBranch(req, org, o, protocol) ==
    IF o = "testsFail"
    THEN [entry |-> ResultWithName(org.id, org.name, FALSE, "Error sharing protocol"),
          protocol |-> protocol, requests |-> <<>>]
    ELSE LET external_protocol == TagAppended(protocol)
             tests == AssociatedTests(req.protocol_id, req.share_mode, req.selected_tests)
             batches == AssociatedBatches(req, protocol)
             orgs == ReferencedOrganizations(external_protocol)
             status == CASE o = "unreachable" -> "none" [] o = "reject" -> "4xx"
                         [] OTHER -> "2xx"
             bundle == Submission(org, "Bundle", TargetUrl(org.url), external_protocol,
                                  tests, batches, orgs, status)
         IN [entry |->
                CASE o = "unreachable" ->
                        ResultWithName(org.id, org.name, FALSE, "Error sharing protocol")
                  [] o = "reject" ->
                        ResultWithName(org.id, org.name, FALSE, "Failed to share protocol")
                  [] OTHER ->
                        ResultWithName(org.id, org.name, TRUE, "Successfully shared protocol"),
             protocol |-> AfterTagAppend(protocol),
             requests |-> <<bundle>>]

\* push_protocol_to_external_server(existing_protocol, url, api_key, mode, selected)
push_protocol_to_external_server(req, org, o, protocol) ==
    LET registered == o # "unreachable"
        dated == IF HasExt(protocol, SharedDateUrl)
                 THEN [k \in 1..Len(protocol.extension) |->
                          IF protocol.extension[k].url = SharedDateUrl
                          THEN Ext(SharedDateUrl, <<"now">>)
                          ELSE protocol.extension[k]]
                 ELSE Append(protocol.extension, Ext(SharedDateUrl, <<"now">>))
        flagged == Append(dated, Ext(SharedWithCROUrl, <<"true">>))
        extended == IF registered
                    THEN Append(flagged, Ext(SponsorOrganizationUrl,
                                             Ref("Organization", "sponsor-at-target")))
                    ELSE flagged
        \* the filter of lines 985-1046 runs only for a non-empty selection
        filtering == req.share_mode = "specificTests" /\ req.selected_tests # {}
        selected(a) == a.id \in req.selected_tests
        partly(a) == [a EXCEPT !.action =
                        SelectSeq(a.action, LAMBDA t : t \in req.selected_tests)]
        kept == SelectSeq(protocol.action,
                          LAMBDA a : selected(a) \/ partly(a).action # <<>>)
        filtered_actions == [k \in 1..Len(kept) |->
                                IF selected(kept[k]) THEN kept[k] ELSE partly(kept[k])]
        marked == IF filtering /\ protocol.action # <<>>
                  THEN Append(extended, Ext(PartialShareUrl, <<"true">>))
                  ELSE extended
        \* the stability-test-definitions extension keeps the selected tests, or goes
        only_selected(e) == [e EXCEPT !.value = SelectSeq(@, LAMBDA t : t \in req.selected_tests)]
        narrowed == [k \in 1..Len(marked) |->
                        IF marked[k].url = StabilityTestDefinitionsUrl
                        THEN only_selected(marked[k]) ELSE marked[k]]
        trimmed == IF filtering
                   THEN SelectSeq(narrowed, LAMBDA e : ~(/\ e.url = StabilityTestDefinitionsUrl
                                                         /\ e.value = <<>>))
                   ELSE marked
        withExts == [protocol EXCEPT !.extension = IF filtering THEN narrowed ELSE marked]
        external_protocol ==
            [TagAppended(withExts) EXCEPT
                !.id = "",
                !.extension = trimmed,
                !.action = IF filtering /\ protocol.action # <<>>
                           THEN filtered_actions ELSE @]
        status == CASE o = "unreachable" -> "none" [] o = "reject" -> "4xx" [] OTHER -> "2xx"
        message == CASE o = "unreachable" -> "Error sharing to"
                     [] o = "reject" -> "Failed to share to"
                     [] req.share_mode = "specificTests" -> "Successfully shared selected tests to"
                     [] OTHER -> "Successfully shared to"
    IN [entry |-> ResultWithName(org.id, org.name, status = "2xx", message),
        protocol |-> AfterTagAppend(withExts),
        requests |-> <<Submission(org, "PlanDefinition", org.url, external_protocol,
                                  <<>>, <<>>, <<>>, status)>>]

\* one iteration of "for org_id in share_request.organization_ids"
ProcessTarget(req, org_id, o, protocol) ==
    IF o = "orgRaise"
    THEN [entry |-> ResultWithoutName(org_id, "Error processing organization"),
          protocol |-> protocol, requests |-> <<>>]
    ELSE IF o = "orgStatus" \/ org_id \notin DOMAIN spOrganization
    THEN [entry |-> ResultWithoutName(org_id, "Could not retrieve organization details"),
          protocol |-> protocol, requests |-> <<>>]
    ELSE LET org == spOrganization[org_id]
         IN IF org.url = ""
            THEN [entry |-> ResultWithName(org_id, org.name, FALSE,
                                "No FHIR server URL provided for this organization"),
                  protocol |-> protocol, requests |-> <<>>]
            ELSE IF \/ req.share_mode = "fullProtocol"
                    \/ (req.share_mode = "specificTests" /\ req.selected_tests # {})
            THEN BundleBranch(req, org, o, protocol)
            ELSE push_protocol_to_external_server(req, org, o, protocol)

\* a failed target ends the whole call
ShareTargetAbortsOnFailure(o) ==
    /\ pc = "targets"
    /\ Len(share_results) < Len(share_request.organization_ids)
    /\ LET org_id == share_request.organization_ids[Len(share_results) + 1]
           done == ProcessTarget(share_request, org_id, o, existing_protocol)
       IN /\ share_results' = Append(share_results, done.entry)
          /\ existing_protocol' = done.protocol
          /\ sent' = sent \o done.requests
          /\ IF done.entry.success
             THEN UNCHANGED <<pc, response>>
             ELSE /\ pc' = "done"
                  /\ response' = [status |-> 500, share_results |-> <<>>, batches_shared |-> 0]
    /\ outcomes' = Append(outcomes, o)
    /\ UNCHANGED <<share_request, protocol_load, batch_errors, spVars, croVars, regVars, codecVars>>

ShareTarget(o) ==
    /\ pc = "targets"
    /\ Len(share_results) < Len(share_request.organization_ids)
    /\ LET org_id == share_request.organization_ids[Len(share_results) + 1]
           done == ProcessTarget(share_request, org_id, o, existing_protocol)
       IN /\ share_results' = Append(share_results, done.entry)
          /\ existing_protocol' = done.protocol
          /\ sent' = sent \o done.requests
    /\ outcomes' = Append(outcomes, o)
    /\ UNCHANGED <<pc, share_request, protocol_load, batch_errors, response, spVars, croVars,
                   regVars, codecVars>>

\* "batches_shared": shareBatches and len(selectedBatches), failed ones included
BatchesShared(req) == IF req.shareBatches THEN Len(req.selectedBatches) ELSE 0

\* the report keeps only the targets that succeeded
ShareReturnsSuccessesOnly ==
    /\ pc = "targets"
    /\ Len(share_results) = Len(share_request.organization_ids)
    /\ pc' = "done"
    /\ response' = [status |-> 200,
                    share_results |-> SelectSeq(share_results, LAMBDA e : e.success),
                    batches_shared |-> BatchesShared(share_request)]
    /\ UNCHANGED <<share_request, protocol_load, existing_protocol, share_results,
                   batch_errors, outcomes, sent, spVars, croVars, regVars, codecVars>>

\* step 5: the report
ShareReturn ==
    /\ pc = "targets"
    /\ Len(share_results) = Len(share_request.organization_ids)
    /\ pc' = "done"
    /\ response' = [status |-> 200, share_results |-> share_results,
                    batches_shared |-> BatchesShared(share_request)]
    /\ UNCHANGED <<share_request, protocol_load, existing_protocol, share_results,
                   batch_errors, outcomes, sent, spVars, croVars, regVars, codecVars>>

\* the response has gone out and the handler's locals are dropped
ShareEnd ==
    /\ pc = "done"
    /\ pc' = "idle"
    /\ share_request' = NoRequest
    /\ protocol_load' = "none"
    /\ existing_protocol' = InitialProtocol(TRUE)
    /\ share_results' = <<>>
    /\ batch_errors' = <<>>
    /\ outcomes' = <<>>
    /\ sent' = <<>>
    /\ response' = NoResponse
    /\ UNCHANGED <<spVars, croVars, regVars, codecVars>>

---------------------------------------------------------------------------
(* Specification of the sharing workflow *)

SponsorInit ==
    /\ spPlanDefinition = [p \in {"P1"} |-> InitialProtocol(TRUE)]
    /\ spActivityDefinition = InitialTests
    /\ spMedication = InitialBatches
    /\ spOrganization = InitialOrganizations
    /\ created_batches = <<>>
    /\ ShareIdle

CroEmpty ==
    /\ croFhir = [t \in ResourceTypes |-> <<>>]
    /\ croNextId = 1
    /\ forwarded = {}
    /\ croResponse = NoCall

RegEmpty ==
    /\ regObservation = <<>>
    /\ regResponse = NoCall

\* no codec call is recorded
NoValue == [kind |-> "none"]

CodecIdle ==
    /\ codec_entity = NoValue
    /\ codec_resource = NoValue
    /\ codec_decoded = NoValue

Init == SponsorInit /\ CroEmpty /\ RegEmpty /\ CodecIdle

Next ==
    \/ \E req \in ShareRequests, getOutcome \in {"ok", "status", "raise"}, putOk \in BOOLEAN :
            ShareBegin(req, getOutcome, putOk, {})
    \/ \E o \in TargetOutcomes : ShareTarget(o)
    \/ ShareReturn
    \/ ShareEnd

Spec == Init /\ [][Next]_vars

---------------------------------------------------------------------------
(* Properties of the sharing workflow *)

Targets == share_request.organization_ids

\* the target can be reached at all: its record loads and names an endpoint
Reachable(org_id, o) ==
    /\ o \notin {"orgStatus", "orgRaise"}
    /\ org_id \in DOMAIN spOrganization
    /\ spOrganization[org_id].url # ""

UsesBundle ==
    \/ share_request.share_mode = "fullProtocol"
    \/ (share_request.share_mode = "specificTests" /\ share_request.selected_tests # {})

\* what a target's own circumstances say about its result
OwnSuccess(org_id, o) ==
    /\ Reachable(org_id, o)
    /\ o \notin {"reject", "unreachable"}
    /\ ~(UsesBundle /\ o = "testsFail")

\* C1: a failing target never keeps the later targets from being processed:
\* every target gets its result, decided by that target's own circumstances
\* alone, and once the loop has run the call answers 200 with all of them.
C1_FailureIsolation ==
    /\ Len(share_results) = Len(outcomes)
    /\ \A k \in 1..Len(share_results) :
          /\ share_results[k].organization_id = Targets[k]
          /\ share_results[k].success = OwnSuccess(Targets[k], outcomes[k])
    /\ (pc = "done" /\ outcomes # <<>>) =>
          /\ response.status = 200
          /\ Len(outcomes) = Len(Targets)
          /\ response.share_results = share_results

\* a failed target followed by a successful one, both reported with 200
C1_Witness ==
    /\ pc = "done"
    /\ response.status = 200
    /\ Len(response.share_results) = 2
    /\ ~response.share_results[1].success
    /\ response.share_results[2].success

\* C2: with share_mode specificTests and nothing selected, every target that
\* could be reached is reported as a failure saying that no tests were
\* selected, and no bundle goes to any target.
C2_EmptySelectionSharesNothing ==
    (/\ pc = "done"
     /\ response.status = 200
     /\ share_request.share_mode = "specificTests"
     /\ share_request.selected_tests = {})
    => /\ \A k \in 1..Len(response.share_results) :
             Reachable(Targets[k], outcomes[k]) =>
                /\ ~response.share_results[k].success
                /\ response.share_results[k].message = "No tests selected for sharing"
       /\ \A k \in 1..Len(sent) : sent[k].kind # "Bundle"

ActionIds(protocol) ==
    UNION {{protocol.action[k].id} \cup Range(protocol.action[k].action) :
              k \in 1..Len(protocol.action)}

\* an action survives the filter whole when it is selected itself, and with
\* its selected timepoints only otherwise
OnlySelectedActions(protocol, selected) ==
    \A k \in 1..Len(protocol.action) :
        \/ protocol.action[k].id \in selected
        \/ /\ protocol.action[k].action # <<>>
           /\ Range(protocol.action[k].action) \subseteq selected

\* C3: with share_mode specificTests and a non-empty selection, what is sent to
\* a target holds only selected actions/timepoints and only selected test
\* definitions.
C3_OnlySelectedSent ==
    (share_request.share_mode = "specificTests" /\ share_request.selected_tests # {})
    => \A k \in 1..Len(sent) :
          /\ OnlySelectedActions(sent[k].protocol, share_request.selected_tests)
          /\ \A j \in 1..Len(sent[k].tests) :
                sent[k].tests[j].id \in share_request.selected_tests

\* C8: when the repository answers 404 for the protocol, the call answers 404
\* and nothing is sent to any target.
C8_MissingProtocolIs404 ==
    (pc = "done" /\ protocol_load = "404")
    => /\ response.status = 404
       /\ sent = <<>>

\* C9: the returned list has one entry per requested organization, in the
\* order of the request.
C9_OneResultPerTarget ==
    (pc = "done" /\ response.status = 200)
    => /\ Len(response.share_results) = Len(Targets)
       /\ \A k \in 1..Len(Targets) :
             response.share_results[k].organization_id = Targets[k]

\* two different organizations, one failing and one succeeding, in request order
C9_Witness ==
    /\ pc = "done"
    /\ response.status = 200
    /\ Len(Targets) = 2
    /\ Targets[1] # Targets[2]
    /\ response.share_results[1].success
    /\ ~response.share_results[2].success

ResultFields == {"organization_id", "organization_name", "success", "message"}

\* C10: every entry of share_results carries organization_id,
\* organization_name, success and message.
C10_AllFourFields ==
    \A k \in 1..Len(share_results) : ResultFields \subseteq DOMAIN share_results[k]

SharedOrganizationsExts(protocol) ==
    SelectSeq(protocol.extension, LAMBDA e : e.url = SharedOrganizationsUrl)

\* C11: a share call writes the local protocol once, before the first target
\* and never during the target loop, and after any sequence of share calls the
\* stored protocol carries at most one shared-organizations extension, which
\* lists exactly the organization ids of the latest call that recorded its
\* intent.
C11_SharingRecordedOnce ==
    [][/\ \A p \in DOMAIN spPlanDefinition' :
              Len(SharedOrganizationsExts(spPlanDefinition'[p])) <= 1
       /\ spPlanDefinition' # spPlanDefinition => (pc = "idle" /\ pc' = "targets")
       /\ (pc' = "targets" \/ (pc' = "done" /\ response'.status = 200)) =>
              SharedOrganizationsExts(spPlanDefinition'[share_request'.protocol_id])
                  = IF share_request'.organization_ids = <<>> THEN <<>>
                    ELSE <<Ext(SharedOrganizationsUrl, share_request'.organization_ids)>>]_vars

\* a call for two targets is over and the stored protocol names both, once
C11_Witness ==
    /\ pc = "done"
    /\ response.status = 200
    /\ Len(share_request.organization_ids) = 2
    /\ SharedOrganizationsExts(spPlanDefinition[share_request.protocol_id])
            = <<Ext(SharedOrganizationsUrl, share_request.organization_ids)>>


BundlesSent == SelectSeq(sent, LAMBDA s : s.kind = "Bundle")

\* C25: in one share_protocol call every bundle carries a protocol copy with
\* exactly one shared-protocol tag, and the copies of all targets are equal.
C25_ExportsIndependent ==
    \A k \in 1..Len(BundlesSent) :
        /\ Len(SelectSeq(BundlesSent[k].protocol.tag, LAMBDA t : t = SharedProtocolTag)) = 1
        /\ \A j \in 1..Len(BundlesSent) : BundlesSent[j].protocol = BundlesSent[k].protocol


\* the api keys and endpoint urls a submission carries in its resources
CredentialsIn(submission) ==
    UNION {{o.api_key, o.url} : o \in Range(submission.organizations)} \ {""}

\* C26: a submission to one target carries neither the api key nor the
\* endpoint url of another target named in the same share request.
C26_CredentialsConfined ==
    \A k \in 1..Len(sent) :
        \A b \in (Range(share_request.organization_ids) \cap DOMAIN spOrganization)
                    \ {sent[k].to} :
            /\ spOrganization[b].api_key \notin CredentialsIn(sent[k])
            /\ spOrganization[b].url \notin CredentialsIn(sent[k])

---------------------------------------------------------------------------
(* share_protocol with selected batches *)

\* the longest list of selected batches
MaxSelected == 2

\* the number of times one batch may be marked
MaxMarkings == 2

\* B1 is stored, B9 is not
SelectableBatchIds == {"B1", "B9"}

BatchLists ==
    {l \in UNION {[1..n -> SelectableBatchIds] : n \in 1..MaxSelected} :
        \A i, j \in 1..Len(l) : l[i] = l[j] => i = j}

BatchShareRequests ==
    [protocol_id : {"P1"},
     organization_ids : {<<"O1">>, <<"O2">>},
     share_mode : {"fullProtocol"},
     selected_tests : {{}},
     shareBatches : BOOLEAN,
     selectedBatches : BatchLists]

SharedWithOrganizationsExts(batch) ==
    SelectSeq(batch.extension, LAMBDA e : e.url = BatchSharedWithOrganizationsUrl)

NextBatches ==
    \/ \E req \in BatchShareRequests, putOk \in BOOLEAN,
          failed \in SUBSET (1..MaxSelected) :
            /\ \A b \in DOMAIN spMedication :
                   Len(SharedWithOrganizationsExts(spMedication[b])) < MaxMarkings
            /\ failed \subseteq 1..Len(req.selectedBatches)
            /\ ShareBegin(req, "ok", putOk, failed)
    \/ \E o \in {"ok", "reject"} : ShareTarget(o)
    \/ ShareReturn
    \/ ShareEnd

SpecBatches == Init /\ [][NextBatches]_vars

\* C12: a share call that answers 200 although some selected batch could not
\* be marked tells the caller about it: the count of shared batches leaves the
\* failed ones out, or a result entry names the failed batch as not shared
C12_BatchFailuresReported ==
    (pc = "done" /\ response.status = 200 /\ share_request.shareBatches) =>
        \/ response.batches_shared
               = Len(share_request.selectedBatches) - Len(batch_errors)
        \/ \A k \in 1..Len(batch_errors) :
               \E i \in 1..Len(response.share_results) :
                   /\ ~response.share_results[i].success
                   /\ response.share_results[i].organization_id = batch_errors[k]

\* C13: however often a batch has been marked by share calls, it carries at
\* most one shared-with-organizations extension
C13_OneOrganizationsExtension ==
    \A b \in DOMAIN spMedication :
        Len(SharedWithOrganizationsExts(spMedication[b])) <= 1

---------------------------------------------------------------------------
(* CRO backend: the TestResult codec *)

MaxResults == 2

TestProtocolReferenceUrl == "test-protocol-reference"
ProtocolTimepointUrl == "protocol-timepoint"
ProtocolTimepointTitleUrl == "protocol-timepoint-title"
ParameterResultsUrl == "parameter-results"
CriteriaResultsUrl == "criteria-results"
ResultDetailsUrl == "result-details"
SharedWithSponsorUrl == "shared-with-sponsor"
ResultSourceUrl == "result-source"
StabilityTestCategory == "stability-test"

\* "if x:" on an Optional[str]
Truthy(s) == s # None /\ s # ""

\* float(s) succeeds on these strings; str(float(s)) is what the decoder gives back
FloatStrings == {"5", "5.0"}
StrOfFloat(s) == IF s \in {"5", "5.0"} THEN "5.0" ELSE s

\* datetime.now().isoformat(): no date a caller supplies
Now == "<now>"

\* dict.get(key, default): a resource is a record, an absent key is outside
\* its domain
Get(resource, key, default) == IF key \in DOMAIN resource THEN resource[key] ELSE default

\* the time of day within Now
NowTime == "<now>[11:19]"

\* s[11:19] of a date-time string: "" for a bare date of ten characters
Chars11To19(s) ==
    CASE s = "2024-01-01T10:00:00" -> "10:00:00"
      [] s = Now -> NowTime
      [] OTHER -> ""

\* An Optional[Dict] is <<>> for None and <<d>> for a dict d, a set of
\* <<key, value>> pairs; "if d:" holds for a dict with an entry
NoDict == <<>>
EmptyDict == <<{}>>
DictTruthy(d) == d # NoDict /\ d[1] # {}

\* the dicts and the texts the model passes through json.dumps and json.loads
JsonDicts == {{}, {<<"assay", "99.1">>}, {<<"pass", "true">>}}
MalformedJson == {"{assay: 99.1", ""}

json_dumps(d) ==
    CASE d = {} -> "{}"
      [] d = {<<"assay", "99.1">>} -> "{\"assay\": \"99.1\"}"
      [] d = {<<"pass", "true">>} -> "{\"pass\": true}"

\* json.loads: <<d>> for the text of a dict, <<>> where it raises JSONDecodeError
json_loads(s) ==
    LET parsed == {d \in JsonDicts : json_dumps(d) = s}
    IN IF parsed = {} THEN <<>> ELSE <<CHOOSE d \in parsed : TRUE>>

\* the last extension with this url is parsed, whether it parses or not
LastJsonExtUnguarded(exts, u) ==
    LET hits == SelectSeq(exts, LAMBDA e : e.url = u /\ e.value # <<>>)
    IN IF hits = <<>> THEN EmptyDict ELSE json_loads(hits[Len(hits)].value[1])

\* the dict of the last extension with this url that parses; {} without one
LastJsonExt(exts, u) ==
    LET hits == SelectSeq(exts, LAMBDA e : e.url = u /\ e.value # <<>>
                                             /\ json_loads(e.value[1]) # <<>>)
    IN IF hits = <<>> THEN EmptyDict ELSE json_loads(hits[Len(hits)].value[1])

\* json.dumps of a dict that is set, as a valueString extension
JsonExt(u, d) == IF DictTruthy(d) THEN <<Ext(u, <<json_dumps(d[1])>>)>> ELSE <<>>

\* the value of the last extension with this url, or default
LastExtValue(exts, u, default) ==
    LET hits == SelectSeq(exts, LAMBDA e : e.url = u)
    IN IF hits = <<>> THEN default ELSE hits[Len(hits)].value

convert_test_result_to_observation(test_result) ==
    LET quantity == test_result.result_unit # "" /\ test_result.result_value \in FloatStrings
    IN [resourceType |-> "Observation",
        id |-> None,
        status |-> test_result.status,
        code |-> test_result.test_definition_id,
        effectiveDateTime |->
            test_result.result_date \o
                (IF Truthy(test_result.result_time) THEN "T" \o test_result.result_time ELSE ""),
        performer |-> <<test_result.performed_by>>,
        subject |-> IF Truthy(test_result.batch_id)
                    THEN Ref("Device", test_result.batch_id) ELSE <<>>,
        extension |->
            (IF Truthy(test_result.protocol_id)
             THEN <<Ext(TestProtocolReferenceUrl, Ref("PlanDefinition", test_result.protocol_id))>>
             ELSE <<>>)
            \o (IF Truthy(test_result.timepoint_id)
                THEN <<Ext(ProtocolTimepointUrl, <<test_result.timepoint_id>>)>> ELSE <<>>)
            \o (IF Truthy(test_result.timepoint_title)
                THEN <<Ext(ProtocolTimepointTitleUrl, <<test_result.timepoint_title>>)>>
                ELSE <<>>)
            \o (IF test_result.share_with_sponsor
                THEN <<Ext(SharedWithSponsorUrl, <<"true">>)>> ELSE <<>>)
            \o JsonExt(ParameterResultsUrl, test_result.parameter_results)
            \o JsonExt(CriteriaResultsUrl, test_result.criteria_results)
            \o JsonExt(ResultDetailsUrl, test_result.result_details),
        valueQuantity |-> IF quantity
                          THEN <<StrOfFloat(test_result.result_value), test_result.result_unit>>
                          ELSE <<>>,
        valueString |-> IF quantity THEN <<>> ELSE <<test_result.result_value>>,
        note |-> IF Truthy(test_result.notes) THEN <<test_result.notes>> ELSE <<>>,
        category |-> <<>>]

\* reference.replace("Device/", "")
WithoutDevicePrefix(ref) == IF ref[1] = "Device" THEN ref[2] ELSE ref[1] \o "/" \o ref[2]

\* a key the encoder leaves out is held as <<>>, which reads as an absent key
convert_observation_to_test_result(observation) ==
    LET extension == Get(observation, "extension", <<>>)
        subject == Get(observation, "subject", <<>>)
        effectiveDateTime == Get(observation, "effectiveDateTime", Now)
        valueQuantity == Get(observation, "valueQuantity", <<>>)
        valueString == Get(observation, "valueString", <<>>)
        note == Get(observation, "note", <<>>)
        performer == Get(observation, "performer", <<>>)
        protocol_ref == LastExtValue(extension, TestProtocolReferenceUrl, <<>>)
        timepoint == LastExtValue(extension, ProtocolTimepointUrl, <<>>)
        title == LastExtValue(extension, ProtocolTimepointTitleUrl, <<>>)
        shared == LastExtValue(extension, SharedWithSponsorUrl, <<"false">>)
    IN [id |-> Get(observation, "id", None),
        protocol_id |-> IF protocol_ref # <<>> /\ protocol_ref[1] = "PlanDefinition"
                        THEN protocol_ref[2] ELSE None,
        batch_id |-> IF subject # <<>> THEN WithoutDevicePrefix(subject) ELSE None,
        test_definition_id |-> Get(observation, "code", ""),
        timepoint_id |-> IF timepoint # <<>> THEN timepoint[1] ELSE None,
        timepoint_title |-> IF title # <<>> THEN title[1] ELSE None,
        result_date |-> effectiveDateTime,
        result_time |-> Chars11To19(effectiveDateTime),
        result_value |-> IF valueQuantity # <<>> THEN valueQuantity[1]
                         ELSE IF valueString # <<>> THEN valueString[1]
                         ELSE "",
        result_unit |-> IF valueQuantity # <<>> THEN valueQuantity[2] ELSE "",
        notes |-> IF note # <<>> THEN note[1] ELSE "",
        status |-> "final",
        performed_by |-> IF performer # <<>> THEN performer[1] ELSE "Unknown",
        share_with_sponsor |-> shared = <<"true">>,
        sponsor_id |-> None,
        parameter_results |-> LastJsonExt(extension, ParameterResultsUrl),
        criteria_results |-> LastJsonExt(extension, CriteriaResultsUrl),
        result_details |-> LastJsonExt(extension, ResultDetailsUrl)]

---------------------------------------------------------------------------
(* CRO backend: repository access and the batch view *)

Stored(type, id) == id \in DOMAIN croFhir[type]

Put(fhir, type, id, resource) == [fhir EXCEPT ![type] = (id :> resource) @@ @]

Remove(fhir, type, id) == [fhir EXCEPT ![type] = [k \in (DOMAIN @) \ {id} |-> @[k]]]

Reply(status, detail, body) == [status |-> status, detail |-> detail, body |-> body]

\* GET of one resource: any failure, a 404 included, surfaces as a 500
fetch_fhir_resource(type, id, up) ==
    IF up /\ Stored(type, id)
    THEN Reply(200, "", <<croFhir[type][id]>>)
    ELSE Reply(500, "FHIR server error", <<>>)

HasTag(resource, code) == resource.hasMeta /\ code \in Range(resource.tag)

ManufactureDateUrl == "manufactureDate"
QuantityUrl == "quantity"

\* identifier holds the values under the protocol identifier system;
\* deviceName holds the names
convert_device_to_batch(device) ==
    LET identifier == Get(device, "identifier", <<>>)
        extension == Get(device, "extension", <<>>)
        identified == IF identifier # <<>> THEN identifier[1] ELSE ""
        refs == SelectSeq(extension,
                          LAMBDA e : /\ e.url = BatchProtocolUrl
                                     /\ e.value # <<>>
                                     /\ e.value[1] = "PlanDefinition")
        stated == Get(device, "manufactureDate", Now)
        dated == SelectSeq(extension, LAMBDA e : e.url = ManufactureDateUrl)
        counted == SelectSeq(extension, LAMBDA e : e.url = QuantityUrl /\ e.value # <<>>)
        deviceName == Get(device, "deviceName", <<>>)
        lotNumber == Get(device, "lotNumber", "")
    IN [id |-> Get(device, "id", None),
        protocol_id |-> IF identified # "" THEN identified
                        ELSE IF refs # <<>> THEN refs[1].value[2] ELSE "",
        batch_number |-> IF deviceName # <<>> THEN deviceName[1]
                         ELSE IF lotNumber # "" THEN "Lot " \o lotNumber
                         ELSE "Unknown Batch",
        manufacture_date |-> IF stated = "" /\ dated # <<>>
                             THEN (IF dated[1].value # <<>> THEN dated[1].value[1] ELSE Now)
                             ELSE stated,
        quantity |-> IF counted # <<>> THEN counted[1].value[1] ELSE 0,
        status |-> Get(device, "status", "registered")]

convert_batch_to_device(batch) ==
    [resourceType |-> "Device",
     status |-> batch.status,
     deviceName |-> <<batch.batch_number>>,
     identifier |-> <<batch.protocol_id>>,
     extension |-> <<Ext(ManufactureDateUrl, <<batch.manufacture_date>>),
                     Ext(QuantityUrl, <<batch.quantity>>)>>]

\* the Medication half builds the Batch in place
MedicationAsBatch(medication) ==
    [id |-> medication.id,
     protocol_id |-> IF medication.identifier # <<>> THEN medication.identifier[1] ELSE "",
     status |-> "registered"]

get_batch(batch_id, deviceUp, medicationUp) ==
    LET device == fetch_fhir_resource("Device", batch_id, deviceUp)
        deviceShared ==
            /\ device.status = 200
            /\ \/ HasTag(device.body[1], SharedBatchTag)
               \/ HasExt(device.body[1], BatchSharedWithCroUrl)
               \/ HasExt(device.body[1], BatchSharedWithOrganizationsUrl)
        medication == fetch_fhir_resource("Medication", batch_id, medicationUp)
    IN IF deviceShared THEN Reply(200, "", <<convert_device_to_batch(device.body[1])>>)
       ELSE IF medication.status # 200 THEN medication
       ELSE IF ~HasTag(medication.body[1], SharedBatchTag)
       THEN Reply(403, "This batch is not shared with your organization", <<>>)
       ELSE Reply(200, "", <<MedicationAsBatch(medication.body[1])>>)

CroAnswers(op, id, fhir, reply) ==
    croResponse' = Call(op, id, fhir, reply.status, reply.detail, reply.body)

Reads(up) == IF up THEN "ok" ELSE "readFails"

GetBatch(batch_id, deviceUp, medicationUp) ==
    /\ CroAnswers("get_batch", batch_id, Reads(deviceUp /\ medicationUp),
                  get_batch(batch_id, deviceUp, medicationUp))
    /\ UNCHANGED <<croFhir, croNextId, forwarded, spVars, shareVars, regVars, codecVars>>

---------------------------------------------------------------------------
(* CRO backend: test results *)

get_test_result(result_id, up) ==
    LET observation == fetch_fhir_resource("Observation", result_id, up)
    IN IF observation.status # 200 THEN observation
       ELSE Reply(200, "", <<convert_observation_to_test_result(observation.body[1])>>)

GetTestResult(result_id, up) ==
    /\ CroAnswers("get_test_result", result_id, Reads(up), get_test_result(result_id, up))
    /\ UNCHANGED <<croFhir, croNextId, forwarded, spVars, shareVars, regVars, codecVars>>

\* the POST of a one-entry transaction to the sponsor's repository
forward_result_to_sponsor(observation, reachable) ==
    [success |-> reachable,
     sent |-> [observation EXCEPT !.extension = Append(@, Ext(ResultSourceUrl, <<"cro">>))]]

WithCategory(observation, id) ==
    [observation EXCEPT !.id = id, !.category = <<StabilityTestCategory>>]

\* fhir: "ok", "readFails" or "writeFails" (the repository fails the reads or
\* the write of this call); reachable: the sponsor's repository takes the POST
create_test_result(test_result, fhir, reachable) ==
    /\ croNextId <= MaxResults
    /\ LET batch == get_batch(test_result.batch_id, fhir # "readFails", fhir # "readFails")
           id == ToString(croNextId)
           observation == WithCategory(convert_test_result_to_observation(test_result), id)
           fhir_response == forward_result_to_sponsor(observation, reachable)
       IN IF Truthy(test_result.batch_id) /\ batch.status # 200
          THEN /\ CroAnswers("create_test_result", "", fhir,
                     Reply(400, "Invalid batch ID or batch not shared with your organization",
                           <<>>))
               /\ UNCHANGED <<croFhir, croNextId, forwarded>>
          ELSE IF fhir = "writeFails"
          THEN /\ CroAnswers("create_test_result", "", fhir, Reply(500, "FHIR server error", <<>>))
               /\ UNCHANGED <<croFhir, croNextId, forwarded>>
          ELSE /\ croFhir' = Put(croFhir, "Observation", id, observation)
               /\ croNextId' = croNextId + 1
               /\ forwarded' = IF test_result.share_with_sponsor /\ fhir_response.success
                               THEN forwarded \cup {id} ELSE forwarded
               /\ CroAnswers("create_test_result", id, fhir,
                     Reply(200, IF ~test_result.share_with_sponsor THEN ""
                                ELSE IF fhir_response.success THEN "forwarded"
                                ELSE "not forwarded",
                           <<[test_result EXCEPT !.id = id]>>))
    /\ UNCHANGED <<spVars, shareVars, regVars, codecVars>>

UpdateAnswer(result_id, test_result) ==
    Reply(200, "", <<[test_result EXCEPT !.id = result_id]>>)

\* the update goes through whatever the stored result's flag says
update_test_result_unchecked(result_id, test_result, fhir) ==
    /\ LET existing_result == get_test_result(result_id, fhir # "readFails")
           observation == WithCategory(convert_test_result_to_observation(test_result),
                                       result_id)
       IN IF existing_result.status # 200
          THEN /\ CroAnswers("update_test_result", result_id, fhir, existing_result)
               /\ UNCHANGED croFhir
          ELSE IF fhir = "writeFails"
          THEN /\ CroAnswers("update_test_result", result_id, fhir,
                             Reply(500, "FHIR server error", <<>>))
               /\ UNCHANGED croFhir
          ELSE /\ croFhir' = Put(croFhir, "Observation", result_id, observation)
               /\ CroAnswers("update_test_result", result_id, fhir,
                             UpdateAnswer(result_id, test_result))
    /\ UNCHANGED <<croNextId, forwarded, spVars, shareVars, regVars, codecVars>>

\* forward_result_to_sponsor(updated) is called without await: the coroutine
\* never runs and nothing reaches the sponsor
update_test_result(result_id, test_result, fhir) ==
    /\ LET existing_result == get_test_result(result_id, fhir # "readFails")
           observation == WithCategory(convert_test_result_to_observation(test_result),
                                       result_id)
       IN IF existing_result.status # 200
          THEN /\ CroAnswers("update_test_result", result_id, fhir, existing_result)
               /\ UNCHANGED croFhir
          ELSE IF existing_result.body[1].share_with_sponsor
          THEN /\ CroAnswers("update_test_result", result_id, fhir,
                     Reply(403, "Cannot update a result that has been shared with the sponsor",
                           <<>>))
               /\ UNCHANGED croFhir
          ELSE IF fhir = "writeFails"
          THEN /\ CroAnswers("update_test_result", result_id, fhir,
                             Reply(500, "FHIR server error", <<>>))
               /\ UNCHANGED croFhir
          ELSE /\ croFhir' = Put(croFhir, "Observation", result_id, observation)
               /\ CroAnswers("update_test_result", result_id, fhir,
                             UpdateAnswer(result_id, test_result))
    /\ UNCHANGED <<croNextId, forwarded, spVars, shareVars, regVars, codecVars>>

delete_test_result(result_id, fhir) ==
    /\ LET existing_result == get_test_result(result_id, fhir # "readFails")
       IN IF existing_result.status # 200
          THEN /\ CroAnswers("delete_test_result", result_id, fhir, existing_result)
               /\ UNCHANGED croFhir
          ELSE IF existing_result.body[1].share_with_sponsor
          THEN /\ CroAnswers("delete_test_result", result_id, fhir,
                     Reply(403, "Cannot delete a result that has been shared with the sponsor",
                           <<>>))
               /\ UNCHANGED croFhir
          ELSE IF fhir = "writeFails"
          THEN /\ CroAnswers("delete_test_result", result_id, fhir,
                             Reply(500, "FHIR server error", <<>>))
               /\ UNCHANGED croFhir
          ELSE /\ croFhir' = Remove(croFhir, "Observation", result_id)
               /\ CroAnswers("delete_test_result", result_id, fhir,
                             Reply(200, "Test result deleted successfully", <<>>))
    /\ UNCHANGED <<croNextId, forwarded, spVars, shareVars, regVars, codecVars>>

\* the observation as share_test_result rewrites it
SharedObservation(observation, share_result_request) ==
    [observation EXCEPT
        !.extension = Append(WithoutExt(@, SharedWithSponsorUrl),
                             Ext(SharedWithSponsorUrl, <<"true">>)),
        !.note = IF Truthy(share_result_request.notes)
                 THEN Append(@, "Sharing notes: " \o share_result_request.notes) ELSE @,
        !.status = IF share_result_request.finalize /\ @ # "completed" THEN "completed" ELSE @]

\* the handler is synchronous: forward_result_to_sponsor(updated) yields a
\* coroutine that is never awaited and is put in the answer as it is; serving
\* that answer succeeds or fails with the framework (served)
share_test_result(result_id, share_result_request, fhir, served) ==
    /\ LET existing_result == get_test_result(result_id, fhir # "readFails")
       IN IF existing_result.status # 200
          THEN /\ CroAnswers("share_test_result", result_id, fhir, existing_result)
               /\ UNCHANGED croFhir
          ELSE IF existing_result.body[1].share_with_sponsor
          THEN /\ CroAnswers("share_test_result", result_id, fhir,
                             Reply(200, "Result already shared with sponsor", <<>>))
               /\ UNCHANGED croFhir
          ELSE IF fhir = "writeFails"
          THEN /\ CroAnswers("share_test_result", result_id, fhir,
                             Reply(500, "FHIR server error", <<>>))
               /\ UNCHANGED croFhir
          ELSE /\ croFhir' = Put(croFhir, "Observation", result_id,
                                 SharedObservation(croFhir["Observation"][result_id],
                                                   share_result_request))
               /\ CroAnswers("share_test_result", result_id, fhir,
                     IF served THEN Reply(200, "Result shared with sponsor successfully", <<>>)
                     ELSE Reply(500, "Internal Server Error", <<>>))
    /\ UNCHANGED <<croNextId, forwarded, spVars, shareVars, regVars, codecVars>>

---------------------------------------------------------------------------
(* Specification of the CRO's test results *)

TestResults ==
    [id : {None}, protocol_id : {"P1"}, batch_id : {"B1", "B9"}, test_definition_id : {"T1"},
     timepoint_id : {None}, timepoint_title : {None}, result_date : {"2024-01-01"},
     result_time : {None},
     result_value : {"5"}, result_unit : {"mg"}, notes : {None},
     status : {"preliminary"}, performed_by : {"tech"}, share_with_sponsor : BOOLEAN,
     sponsor_id : {None}, parameter_results : {NoDict}, criteria_results : {NoDict},
     result_details : {NoDict}]

ShareResultRequests == [share_with_sponsor : {TRUE}, finalize : BOOLEAN, notes : {None}]

ResultIds == {ToString(n) : n \in 1..MaxResults}

FhirOutcomes == {"ok", "readFails", "writeFails"}

\* a batch the sponsor has shared, in the Device encoding
SharedDevice ==
    [resourceType |-> "Device", id |-> "B1", hasMeta |-> TRUE, tag |-> <<SharedBatchTag>>,
     identifier |-> <<"P1">>, extension |-> <<>>]

InitResults ==
    /\ SponsorInit
    /\ croFhir = [t \in ResourceTypes |-> IF t = "Device" THEN "B1" :> SharedDevice ELSE <<>>]
    /\ croNextId = 1
    /\ forwarded = {}
    /\ croResponse = NoCall
    /\ RegEmpty
    /\ CodecIdle

NextResults ==
    \/ \E t \in TestResults, f \in FhirOutcomes, reachable \in BOOLEAN :
            create_test_result(t, f, reachable)
    \/ \E id \in ResultIds, up \in BOOLEAN : GetTestResult(id, up)
    \/ \E id \in ResultIds, t \in TestResults, f \in FhirOutcomes : update_test_result(id, t, f)
    \/ \E id \in ResultIds, f \in FhirOutcomes : delete_test_result(id, f)
    \/ \E id \in ResultIds, r \in ShareResultRequests, f \in FhirOutcomes, served \in BOOLEAN :
            share_test_result(id, r, f, served)

SpecResults == InitResults /\ [][NextResults]_vars

IsShared(id) ==
    /\ Stored("Observation", id)
    /\ convert_observation_to_test_result(croFhir["Observation"][id]).share_with_sponsor

\* C4: update_test_result and delete_test_result on a stored result whose
\* shared-with-sponsor flag is true answer 403 (the repository serving the
\* read), and the repository is the same before and after, whatever the
\* request body.
C4_SharedResultImmutable ==
    [][\A id \in ResultIds :
          (/\ IsShared(id)
           /\ croResponse'.op \in {"update_test_result", "delete_test_result"}
           /\ croResponse'.id = id)
          => /\ croFhir' = croFhir
             /\ croResponse'.fhir # "readFails" => croResponse'.status = 403]_vars

\* an update of a shared result was turned down and the result is still stored
C4_Witness ==
    /\ croResponse.op = "update_test_result"
    /\ croResponse.status = 403
    /\ IsShared(croResponse.id)


\* C29: every stored result whose shared-with-sponsor flag is set has been
\* forwarded to the sponsor's server, and that request succeeded.
C29_SharedImpliesForwarded ==
    \A id \in DOMAIN croFhir["Observation"] : IsShared(id) => id \in forwarded

---------------------------------------------------------------------------
(* CRO backend: receiving the sponsor's bundle, and the protocol view *)

PageSize == 100

\* str.isdigit() over the ids the model uses
IsDigit(id) == id \in {"7"}

\* the incoming id is used as it is
StoredIdAsReceived(resource_id) == resource_id

\* "if resource_id.isdigit(): resource_id = f'id-{resource_id}'"
StoredId(resource_id) == IF IsDigit(resource_id) THEN "id-" \o resource_id ELSE resource_id

RECURSIVE StoreEntries(_, _, _, _)
\* the PUT loop of receive_shared_resources from entry k on; failed holds the
\* positions whose PUT the repository turns down
StoreEntries(fhir, entries, k, failed) ==
    IF k > Len(entries) THEN [fhir |-> fhir, success_count |-> 0, error_count |-> 0]
    ELSE LET resource == entries[k]
             resource_id == StoredId(resource.id)
             skipped == resource.resourceType = "" \/ resource.id = ""
             stored == ~skipped /\ k \notin failed
             rest == StoreEntries(
                        IF stored
                        THEN Put(fhir, resource.resourceType, resource_id,
                                 [resource EXCEPT !.id = resource_id])
                        ELSE fhir,
                        entries, k + 1, failed)
         IN [fhir |-> rest.fhir,
             success_count |-> rest.success_count + (IF stored THEN 1 ELSE 0),
             error_count |-> rest.error_count + (IF ~skipped /\ ~stored THEN 1 ELSE 0)]

\* the HTTPException(400) for a body that is no Bundle is raised inside the
\* handler's own try and leaves it as a 500
receive_shared_resources(bundle, failed) ==
    /\ IF bundle.resourceType # "Bundle"
       THEN /\ CroAnswers("receive_shared_resources", "", "ok",
                          Reply(500, "Failed to process shared resources", <<>>))
            /\ UNCHANGED croFhir
       ELSE LET done == StoreEntries(croFhir, bundle.entry, 1, failed)
            IN /\ croFhir' = done.fhir
               /\ CroAnswers("receive_shared_resources", "",
                             IF failed = {} THEN "ok" ELSE "writeFails",
                             Reply(200, "Processed resources",
                                   <<done.success_count, done.error_count>>))
    /\ UNCHANGED <<croNextId, forwarded, spVars, shareVars, regVars, codecVars>>

IsSharedWithCro(plan_definition) ==
    \/ HasTag(plan_definition, SharedProtocolTag)
    \/ HasExt(plan_definition, SharedWithCROUrl)
    \/ HasExt(plan_definition, SharedOrganizationsUrl)

\* meta.source is the key source of a resource that has a meta.  The fallback
\* to meta.lastUpdated is taken when a second reading of the clock equals the
\* first, which it does not
convert_plandefinition_to_protocol(plan_definition) ==
    LET extension == Get(plan_definition, "extension", <<>>)
        hasMeta == Get(plan_definition, "hasMeta", FALSE)
        named == SelectSeq(extension, LAMBDA e : e.url = SponsorUrl /\ e.value # <<>>)
        dated == SelectSeq(extension, LAMBDA e : e.url = SharedDateUrl /\ e.value # <<>>)
    IN [id |-> Get(plan_definition, "id", None),
        title |-> Get(plan_definition, "title", "Untitled Protocol"),
        description |-> Get(plan_definition, "description", None),
        sponsor |-> IF named # <<>> THEN named[1].value[1]
                    ELSE IF hasMeta THEN Get(plan_definition, "source", "Unknown")
                    ELSE "Unknown",
        status |-> Get(plan_definition, "status", "unknown"),
        shared_date |-> IF dated # <<>> THEN dated[1].value[1] ELSE Now,
        action |-> Get(plan_definition, "action", <<>>)]

\* the repository's answer to the search status=active,draft
StatusMatches ==
    {id \in DOMAIN croFhir["PlanDefinition"] :
        croFhir["PlanDefinition"][id].status \in {"active", "draft"}}

\* _count=100: one page of the matches
SearchPages ==
    {page \in SUBSET StatusMatches :
        Cardinality(page) = IF Cardinality(StatusMatches) <= PageSize
                            THEN Cardinality(StatusMatches) ELSE PageSize}

get_protocols(up, page) ==
    IF ~up THEN Reply(500, "FHIR server error", {})
    ELSE Reply(200, "",
               {convert_plandefinition_to_protocol(croFhir["PlanDefinition"][id]) :
                    id \in {i \in page : IsSharedWithCro(croFhir["PlanDefinition"][i])}})

GetProtocols(up) ==
    /\ \E page \in SearchPages :
          CroAnswers("get_protocols", "", Reads(up), get_protocols(up, page))
    /\ UNCHANGED <<croFhir, croNextId, forwarded, spVars, shareVars, regVars, codecVars>>

\* every stored protocol is handed out
get_protocol_unfiltered(protocol_id, up) ==
    LET plan_definition == fetch_fhir_resource("PlanDefinition", protocol_id, up)
    IN IF plan_definition.status # 200 THEN plan_definition
       ELSE Reply(200, "", <<convert_plandefinition_to_protocol(plan_definition.body[1])>>)

get_protocol(protocol_id, up) ==
    LET plan_definition == fetch_fhir_resource("PlanDefinition", protocol_id, up)
    IN IF plan_definition.status # 200 THEN plan_definition
       ELSE IF ~IsSharedWithCro(plan_definition.body[1])
       THEN Reply(403, "This protocol is not shared with your organization", <<>>)
       ELSE Reply(200, "", <<convert_plandefinition_to_protocol(plan_definition.body[1])>>)

GetProtocol(protocol_id, up) ==
    /\ CroAnswers("get_protocol", protocol_id, Reads(up), get_protocol(protocol_id, up))
    /\ UNCHANGED <<croFhir, croNextId, forwarded, spVars, shareVars, regVars, codecVars>>

---------------------------------------------------------------------------
(* Specification of the CRO's views *)

Plan(id, status, hasMeta, tag, extension) ==
    [resourceType |-> "PlanDefinition", id |-> id, status |-> status, hasMeta |-> hasMeta,
     tag |-> tag, extension |-> extension, action |-> <<>>]

Batch(type, id, tag, extension) ==
    [resourceType |-> type, id |-> id, hasMeta |-> tag # <<>>, tag |-> tag,
     identifier |-> <<"P-tag">>, extension |-> extension]

\* what arrives at /sponsor/shared-resources
IncomingBundles ==
    {[resourceType |-> "Bundle",
      entry |-> <<Plan("P-tag", "active", TRUE, <<SharedProtocolTag>>,
                       <<Ext(SponsorUrl, <<"Acme">>)>>),
                  Batch("Medication", "M-tag", <<SharedBatchTag>>, <<>>)>>],
     [resourceType |-> "Bundle",
      entry |-> <<Plan("P-ext", "draft", FALSE, <<>>, <<Ext(SharedWithCROUrl, <<"true">>)>>),
                  Plan("P-none", "active", FALSE, <<>>, <<>>)>>],
     [resourceType |-> "Bundle",
      entry |-> <<Plan("P-old", "retired", TRUE, <<SharedProtocolTag>>, <<>>),
                  Plan("", "active", FALSE, <<>>, <<>>)>>],
     [resourceType |-> "Bundle",
      entry |-> <<Batch("Device", "7", <<>>, <<Ext(BatchSharedWithCroUrl, <<"true">>)>>),
                  Batch("Medication", "M-ext", <<>>,
                        <<Ext(BatchSharedWithCroUrl, <<"true">>)>>)>>],
     [resourceType |-> "Bundle",
      entry |-> <<Batch("Device", "D-tag", <<SharedBatchTag>>, <<>>),
                  Batch("Device", "D-none", <<>>, <<>>)>>],
     [resourceType |-> "Patient", entry |-> <<>>]}

PlanIds == {"P-tag", "P-ext", "P-none", "P-old"}
BatchIds == {"M-tag", "M-ext", "id-7", "D-tag", "D-none"}

NextViews ==
    \/ \E bundle \in IncomingBundles, failed \in SUBSET (1..2) :
            receive_shared_resources(bundle, failed)
    \/ \E up \in BOOLEAN : GetProtocols(up)
    \/ \E id \in PlanIds, up \in BOOLEAN : GetProtocol(id, up)
    \/ \E id \in BatchIds, deviceUp \in BOOLEAN, medicationUp \in BOOLEAN :
            GetBatch(id, deviceUp, medicationUp)

SpecViews == Init /\ [][NextViews]_vars

StoredPlan(id) == croFhir["PlanDefinition"][id]

\* the shared protocols the list can show: those the status search finds
SharedListed ==
    {convert_plandefinition_to_protocol(StoredPlan(id)) :
        id \in {i \in StatusMatches : IsSharedWithCro(StoredPlan(i))}}

IsMarkedBatch(resource) ==
    \/ HasTag(resource, SharedBatchTag)
    \/ HasExt(resource, BatchSharedWithCroUrl)
    \/ HasExt(resource, BatchSharedWithOrganizationsUrl)

\* C6: a batch stored as Device or as Medication is returned by get_batch if
\* and only if it carries the shared-batch tag or a shared extension marker,
\* and a stored batch with neither is answered 403.
C6_BatchVisibleIffMarked ==
    LET id == croResponse.id
        encodings == {croFhir[t][id] : t \in {t \in {"Device", "Medication"} : Stored(t, id)}}
    IN (croResponse.op = "get_batch" /\ croResponse.fhir = "ok" /\ encodings # {}) =>
          croResponse.status = IF \E resource \in encodings : IsMarkedBatch(resource)
                               THEN 200 ELSE 403

\* C14: a bundle submitted to /sponsor/shared-resources, every entry of which
\* names its type and id, is applied as a whole: after the submission every
\* entry of the bundle is stored, or the repository is as it was before
C14_BundleAppliedAtomically ==
    [][\A bundle \in IncomingBundles, failed \in SUBSET (1..2) :
          (/\ \A k \in 1..Len(bundle.entry) : bundle.entry[k].id # ""
           /\ receive_shared_resources(bundle, failed)) =>
              \/ croFhir' = croFhir
              \/ \A k \in 1..Len(bundle.entry) :
                     LET resource == bundle.entry[k]
                         resource_id == IF IsDigit(resource.id) THEN "id-" \o resource.id
                                        ELSE resource.id
                     IN /\ resource.resourceType \in ResourceTypes
                        /\ resource_id \in DOMAIN croFhir'[resource.resourceType]]_vars

\* C21: whatever receive_shared_resources writes is an entry of the bundle,
\* stored under the id it arrived with, or under "id-N" for an all-digit id N,
\* and holding that id in its body; nothing is stored under an all-digit id
C21_StoredUnderIncomingId ==
    [][\A bundle \in IncomingBundles, failed \in SUBSET (1..2) :
          (croFhir' # croFhir /\ receive_shared_resources(bundle, failed)) =>
              \A t \in ResourceTypes :
                  \A id \in DOMAIN croFhir'[t] :
                      /\ ~IsDigit(id)
                      /\ (id \notin DOMAIN croFhir[t] \/ croFhir'[t][id] # croFhir[t][id]) =>
                            \E k \in 1..Len(bundle.entry) :
                                LET resource == bundle.entry[k]
                                IN /\ resource.resourceType = t
                                   /\ id = IF IsDigit(resource.id) THEN "id-" \o resource.id
                                           ELSE resource.id
                                   /\ croFhir'[t][id] = [resource EXCEPT !.id = id]]_vars

\* the Device that arrived as 7 is stored as id-7, the Medication beside it
\* under its own id
C21_Witness ==
    /\ croResponse.op = "receive_shared_resources"
    /\ "id-7" \in DOMAIN croFhir["Device"]
    /\ croFhir["Device"]["id-7"].id = "id-7"
    /\ "M-ext" \in DOMAIN croFhir["Medication"]


\* C23: when the repository has no PlanDefinition under the requested id
\* (and serves the read, answering 404), get_protocol answers 404.
C23_MissingProtocolIs404 ==
    (/\ croResponse.op = "get_protocol"
     /\ croResponse.fhir = "ok"
     /\ ~Stored("PlanDefinition", croResponse.id)) => croResponse.status = 404

---------------------------------------------------------------------------
(* Regulator backend *)

MaxLoaded == 3

\* the rows of the loader script: test type, display, unit, value
LoadedResults ==
    {[test_type |-> "appearance", display |-> "Appearance", unit |-> "",
      result_value |-> "Clear, colorless solution"],
     [test_type |-> "ph", display |-> "pH", unit |-> "", result_value |-> "6.8"],
     [test_type |-> "assay", display |-> "Assay", unit |-> "%", result_value |-> "98.5"]}

\* the Observation the loader builds for one row
LoadedObservation(result, id) ==
    [resourceType |-> "Observation", id |-> id, status |-> "final",
     code |-> result.display, effectiveDateTime |-> "2024-03-01",
     subject |-> Ref("Medication", "batch"),
     hasMeta |-> FALSE, tag |-> <<>>,
     extension |-> <<Ext("test-definition", Ref("ActivityDefinition", result.test_type)),
                     Ext("protocol-reference", Ref("PlanDefinition", "protocol"))>>,
     valueQuantity |-> IF result.test_type = "appearance" THEN <<>>
                       ELSE <<result.result_value, result.unit>>,
     valueString |-> IF result.test_type = "appearance" THEN <<result.result_value>> ELSE <<>>,
     note |-> <<>>, category |-> <<>>]

RegAnswers(op, id, fhir, reply) ==
    regResponse' = Call(op, id, fhir, reply.status, reply.detail, reply.body)

\* the loader's POST of one Observation to the regulator's repository
post_resource(result) ==
    /\ Cardinality(DOMAIN regObservation) < MaxLoaded
    /\ LET id == ToString(Cardinality(DOMAIN regObservation) + 1)
       IN regObservation' = (id :> LoadedObservation(result, id)) @@ regObservation
    /\ UNCHANGED <<regResponse, spVars, shareVars, croVars, codecVars>>

\* the StabilityTestResult both handlers build from an Observation
StabilityTestResult(observation) ==
    [id |-> observation.id,
     protocol_id |-> "",
     batch_id |-> WithoutDevicePrefix(observation.subject),
     test_type |-> observation.code,
     result_value |-> IF observation.valueQuantity # <<>> THEN observation.valueQuantity[1]
                      ELSE "0.0",
     unit |-> IF observation.valueQuantity # <<>> THEN observation.valueQuantity[2] ELSE "",
     status |-> observation.status,
     test_date |-> observation.effectiveDateTime,
     sponsor |-> "Unknown",
     cro |-> "Unknown",
     comments |-> IF observation.note # <<>> THEN observation.note[1] ELSE ""]

\* the repository's answer to the search category=stability-test
CategoryMatches ==
    {id \in DOMAIN regObservation : StabilityTestCategory \in Range(regObservation[id].category)}

get_stability_results(up) ==
    /\ RegAnswers("get_stability_results", "", Reads(up),
            IF ~up THEN Reply(500, "FHIR server error", {})
            ELSE Reply(200, "", {StabilityTestResult(regObservation[id]) :
                                    id \in CategoryMatches}))
    /\ UNCHANGED <<regObservation, spVars, shareVars, croVars, codecVars>>

get_stability_result(result_id, up) ==
    /\ RegAnswers("get_stability_result", result_id, Reads(up),
            IF ~up \/ result_id \notin DOMAIN regObservation
            THEN Reply(500, "FHIR server error", <<>>)
            ELSE Reply(200, "", <<StabilityTestResult(regObservation[result_id])>>))
    /\ UNCHANGED <<regObservation, spVars, shareVars, croVars, codecVars>>

LoadedIds == {ToString(n) : n \in 1..MaxLoaded}

NextRegulator ==
    \/ \E result \in LoadedResults : post_resource(result)
    \/ \E up \in BOOLEAN : get_stability_results(up)
    \/ \E id \in LoadedIds, up \in BOOLEAN : get_stability_result(id, up)

SpecRegulator == Init /\ [][NextRegulator]_vars

\* the markers the views of this system read
SharedTags == {SharedProtocolTag, SharedBatchTag}
SharedMarkers == {SharedWithCROUrl, SharedOrganizationsUrl, BatchSharedWithCroUrl,
                  BatchSharedWithOrganizationsUrl, SharedWithSponsorUrl}

IsMarkedResult(observation) ==
    \/ \E code \in SharedTags : HasTag(observation, code)
    \/ \E u \in SharedMarkers : HasExt(observation, u)

\* C7: get_stability_results returns a result only if it carries a shared tag
\* or a shared extension marker, and get_stability_result on a stored result
\* with neither is answered 403.
C7_OnlySharedResultsVisible ==
    /\ (regResponse.op = "get_stability_results" /\ regResponse.status = 200) =>
          \A result \in regResponse.body :
              /\ result.id \in DOMAIN regObservation
              /\ IsMarkedResult(regObservation[result.id])
    /\ (/\ regResponse.op = "get_stability_result"
        /\ regResponse.fhir = "ok"
        /\ regResponse.id \in DOMAIN regObservation
        /\ ~IsMarkedResult(regObservation[regResponse.id])) =>
          regResponse.status = 403

---------------------------------------------------------------------------
(* Sponsor backend: batches *)

\* the number of batches created
MaxBatches == 2

MedicinalProductUrl == "medicinal-product"

\* P1 names no medicinal product, P2 names MP1
ProtocolsWithProducts ==
    [p \in {"P1", "P2"} |->
        IF p = "P1" THEN InitialProtocol(TRUE)
        ELSE ("subjectReference" :> Ref("MedicinalProductDefinition", "MP1"))
                 @@ [InitialProtocol(TRUE) EXCEPT !.id = "P2"]]

BatchCreates ==
    [name : {"Batch"}, identifier : {"B-1"}, protocol_id : {None, "P1", "P2"},
     medicinal_product_id : {None, "MP1"}, lot_number : {"L1"}, manufacturing_date : {None},
     expiry_date : {None}, status : {"active"}]

\* the Medication create_batch posts; identifier holds the values under the
\* protocol identifier system, of which it writes none
MedicationOfBatch(batch) ==
    [resourceType |-> "Medication", hasMeta |-> TRUE, tag |-> <<>>,
     code |-> batch.name, status |-> batch.status, identifier |-> <<>>,
     lotNumber |-> batch.lot_number, expirationDate |-> batch.expiry_date,
     extension |->
        IF Truthy(batch.medicinal_product_id)
        THEN <<Ext(MedicinalProductUrl,
                   Ref("MedicinalProductDefinition", batch.medicinal_product_id))>>
        ELSE <<>>]

SponsorAnswers(op, protocol_id, fhir, status, entry) ==
    response' = [op |-> op, protocol_id |-> protocol_id, fhir |-> fhir, status |-> status,
                 entry |-> entry]

create_batch(batch, postOk) ==
    /\ Len(created_batches) < MaxBatches
    /\ IF postOk
       THEN LET id == "m" \o ToString(Len(created_batches) + 1)
            IN /\ spMedication' = (id :> (("id" :> id) @@ MedicationOfBatch(batch)))
                                      @@ spMedication
               /\ created_batches' = Append(created_batches, <<id, batch>>)
               /\ SponsorAnswers("create_batch", batch.protocol_id, "ok", 200, {id})
       ELSE /\ SponsorAnswers("create_batch", batch.protocol_id, "writeFails", 500, {})
            /\ UNCHANGED <<spMedication, created_batches>>
    /\ UNCHANGED <<spPlanDefinition, spActivityDefinition, spOrganization, pc, share_request,
                   protocol_load, existing_protocol, share_results, batch_errors, outcomes,
                   sent, croVars, regVars, codecVars>>

\* the medicinal product the protocol names, None if it names none or cannot
\* be loaded
ProductOfProtocol(protocol_id, protocolUp) ==
    IF protocolUp /\ protocol_id \in DOMAIN spPlanDefinition
    THEN LET ref == Get(spPlanDefinition[protocol_id], "subjectReference", <<>>)
         IN IF ref # <<>> /\ ref[1] = "MedicinalProductDefinition" THEN ref[2] ELSE None
    ELSE None

\* the filter of get_batches over the stored Medications (which hold no
\* ingredient)
BatchMatches(medication, protocol_id, medicinal_product_id) ==
    \/ \E k \in 1..Len(medication.extension) :
          /\ medication.extension[k].url = BatchProtocolUrl
          /\ medication.extension[k].value = Ref("PlanDefinition", protocol_id)
    \/ /\ Truthy(medicinal_product_id)
       /\ \E k \in 1..Len(medication.extension) :
             /\ medication.extension[k].url = MedicinalProductUrl
             /\ medication.extension[k].value
                    = Ref("MedicinalProductDefinition", medicinal_product_id)

get_batches(protocol_id, protocolUp, listUp) ==
    /\ IF ~listUp
       THEN SponsorAnswers("get_batches", protocol_id, "readFails", 500, {})
       ELSE IF ~Truthy(protocol_id)
       THEN SponsorAnswers("get_batches", protocol_id, "ok", 200, DOMAIN spMedication)
       ELSE SponsorAnswers("get_batches", protocol_id,
                           IF protocolUp THEN "ok" ELSE "readFails", 200,
                           {id \in DOMAIN spMedication :
                               BatchMatches(spMedication[id], protocol_id,
                                            ProductOfProtocol(protocol_id, protocolUp))})
    /\ UNCHANGED <<spVars, pc, share_request, protocol_load, existing_protocol, share_results,
                   batch_errors, outcomes, sent, croVars, regVars, codecVars>>

InitSponsorBatches ==
    /\ spPlanDefinition = ProtocolsWithProducts
    /\ spActivityDefinition = InitialTests
    /\ spMedication = <<>>
    /\ spOrganization = InitialOrganizations
    /\ created_batches = <<>>
    /\ ShareIdle
    /\ CroEmpty /\ RegEmpty /\ CodecIdle

NextSponsorBatches ==
    \/ \E batch \in BatchCreates, postOk \in BOOLEAN : create_batch(batch, postOk)
    \/ \E protocol_id \in {None, "P1", "P2", "P9"}, protocolUp \in BOOLEAN, listUp \in BOOLEAN :
            get_batches(protocol_id, protocolUp, listUp)

SpecSponsorBatches == InitSponsorBatches /\ [][NextSponsorBatches]_vars

\* the ids of the batches created so far for this protocol
CreatedFor(protocol_id) ==
    {created_batches[k][1] :
        k \in {i \in 1..Len(created_batches) : created_batches[i][2].protocol_id = protocol_id}}

\* C20: get_batches with a protocol id, served by the repository, lists
\* exactly the batches that create_batch has created for that protocol
C20_CreatedBatchesListed ==
    (/\ Get(response, "op", "none") = "get_batches"
     /\ response.fhir = "ok"
     /\ response.status = 200
     /\ response.protocol_id # None) =>
        response.entry = CreatedFor(response.protocol_id)

---------------------------------------------------------------------------
(* CRO backend: the codecs taken alone *)

\* the id the repository gives a resource created from an encoder's output
AssignedId == "101"

\* TestResult values within the model's field constraints
TestResultValues ==
    [id : {None}, protocol_id : {None, "P1"}, batch_id : {"B1"}, test_definition_id : {"T1"},
     timepoint_id : {None, "TP1"}, timepoint_title : {None, "3 months"},
     result_date : {"2024-01-01"}, result_time : {None, "10:00:00"},
     result_value : {"5.0", "clear"}, result_unit : {"mg"}, notes : {"", "ok"},
     status : {"final", "completed"}, performed_by : {"tech"}, share_with_sponsor : BOOLEAN,
     sponsor_id : {None, "SP-1"},
     parameter_results : {EmptyDict, <<{<<"assay", "99.1">>}>>},
     criteria_results : {EmptyDict}, result_details : {NoDict, EmptyDict}]

EncodeTestResult ==
    /\ codec_entity.kind = "TestResult"
    /\ codec_resource = NoValue
    /\ codec_resource' =
          [kind |-> "Observation",
           value |-> [convert_test_result_to_observation(codec_entity.value)
                          EXCEPT !.id = AssignedId]]
    /\ UNCHANGED <<codec_entity, codec_decoded, spVars, shareVars, croVars, regVars>>

\* a resource without an id is decoded like any other
MissingIdentityIgnored(resource) == FALSE

\* "if not original_id: raise ValueError(...)"
MissingIdentity(resource) == ~Truthy(Get(resource, "id", None))

\* what a decoder hands to its caller
Decoded(kind, resource, value) ==
    IF MissingIdentity(resource) THEN [kind |-> "error", error |-> "ValueError"]
    ELSE [kind |-> kind, value |-> value]

DecodeObservation ==
    /\ codec_resource.kind = "Observation"
    /\ codec_decoded = NoValue
    /\ codec_decoded' =
          Decoded("TestResult", codec_resource.value,
                  convert_observation_to_test_result(codec_resource.value))
    /\ UNCHANGED <<codec_entity, codec_resource, spVars, shareVars, croVars, regVars>>

\* the largest quantity of a batch
MaxQuantity == 2

BatchValues ==
    [id : {None}, protocol_id : {"", "P1"}, batch_number : {"", "LOT-7"},
     manufacture_date : {"2024-01-01", "2023-06-30T08:00:00"}, quantity : 0..MaxQuantity,
     status : {"registered", "testing"}]

EncodeBatch ==
    /\ codec_entity.kind = "Batch"
    /\ codec_resource = NoValue
    /\ codec_resource' =
          [kind |-> "Device",
           value |-> ("id" :> AssignedId) @@ convert_batch_to_device(codec_entity.value)]
    /\ UNCHANGED <<codec_entity, codec_decoded, spVars, shareVars, croVars, regVars>>

DecodeDevice ==
    /\ codec_resource.kind = "Device"
    /\ codec_decoded = NoValue
    /\ codec_decoded' =
          Decoded("Batch", codec_resource.value,
                  convert_device_to_batch(codec_resource.value))
    /\ UNCHANGED <<codec_entity, codec_resource, spVars, shareVars, croVars, regVars>>

StabilityTestParametersUrl == "stability-test-parameters"
StabilityTestAcceptanceCriteriaUrl == "stability-test-acceptance-criteria"
TestTypeUrl == "test-type"

\* get_protocol_tests: the test built from a test definition of the protocol
\* (one without a topic, so that the type comes from the extension)
protocol_test(test_definition) ==
    LET extension == Get(test_definition, "extension", <<>>)
        typed == SelectSeq(extension, LAMBDA e : e.url = TestTypeUrl)
    IN [id |-> Get(test_definition, "id", "unknown"),
        title |-> Get(test_definition, "title", "Unknown Test"),
        description |-> Get(test_definition, "description", ""),
        type |-> IF typed # <<>> /\ typed[1].value # <<>> THEN typed[1].value[1]
                 ELSE "Unknown",
        parameters |-> LastJsonExt(extension, StabilityTestParametersUrl),
        acceptance_criteria |-> LastJsonExt(extension, StabilityTestAcceptanceCriteriaUrl)]

DecodeTestDefinition ==
    /\ codec_resource.kind = "ActivityDefinition"
    /\ codec_decoded = NoValue
    /\ codec_decoded' = [kind |-> "Test", value |-> protocol_test(codec_resource.value)]
    /\ UNCHANGED <<codec_entity, codec_resource, spVars, shareVars, croVars, regVars>>

\* a stored Observation whose three JSON extensions parse
BaseObservation ==
    [convert_test_result_to_observation(
        [id |-> None, protocol_id |-> "P1", batch_id |-> "B1", test_definition_id |-> "T1",
         timepoint_id |-> "TP1", timepoint_title |-> None, result_date |-> "2024-01-01",
         result_time |-> "10:00:00", result_value |-> "5.0", result_unit |-> "mg",
         notes |-> "ok", status |-> "final", performed_by |-> "tech",
         share_with_sponsor |-> TRUE, sponsor_id |-> None,
         parameter_results |-> <<{<<"assay", "99.1">>}>>,
         criteria_results |-> <<{<<"pass", "true">>}>>,
         result_details |-> <<{<<"assay", "99.1">>}>>])
     EXCEPT !.id = AssignedId]

\* a stored test definition whose two JSON extensions parse
BaseTestDefinition ==
    [resourceType |-> "ActivityDefinition", id |-> "T1", title |-> "Assay",
     extension |-> <<Ext(StabilityTestProtocolUrl, Ref("PlanDefinition", "P1")),
                     Ext(StabilityTestParametersUrl, <<json_dumps({<<"assay", "99.1">>})>>),
                     Ext(StabilityTestAcceptanceCriteriaUrl,
                         <<json_dumps({<<"pass", "true">>})>>),
                     Ext(TestTypeUrl, <<"assay">>)>>]

\* the resource with the value of its extensions of this url replaced by text
WithJsonText(resource, u, text) ==
    [resource EXCEPT !.extension =
        [k \in 1..Len(@) |-> IF @[k].url = u THEN Ext(u, <<text>>) ELSE @[k]]]

ObservationJsonUrls == {ParameterResultsUrl, CriteriaResultsUrl, ResultDetailsUrl}
TestDefinitionJsonUrls == {StabilityTestParametersUrl, StabilityTestAcceptanceCriteriaUrl}

\* the decoded field an extension url feeds
JsonField(u) ==
    CASE u = ParameterResultsUrl -> "parameter_results"
      [] u = CriteriaResultsUrl -> "criteria_results"
      [] u = ResultDetailsUrl -> "result_details"
      [] u = StabilityTestParametersUrl -> "parameters"
      [] u = StabilityTestAcceptanceCriteriaUrl -> "acceptance_criteria"

JsonTexts == MalformedJson \cup {json_dumps(d) : d \in JsonDicts}

DecodePlanDefinition ==
    /\ codec_resource.kind = "PlanDefinition"
    /\ codec_decoded = NoValue
    /\ codec_decoded' =
          Decoded("Protocol", codec_resource.value,
                  convert_plandefinition_to_protocol(codec_resource.value))
    /\ UNCHANGED <<codec_entity, codec_resource, spVars, shareVars, croVars, regVars>>

\* a stored Device and a stored PlanDefinition with every key the decoders read
BaseDevice ==
    [id |-> "D1", status |-> "testing", identifier |-> <<"P1">>,
     manufactureDate |-> "2024-01-01", deviceName |-> <<"LOT-7">>,
     extension |-> <<Ext(QuantityUrl, <<2>>)>>]

BasePlanDefinition ==
    [id |-> "P1", title |-> "Study", description |-> "text", status |-> "active",
     extension |-> <<Ext(SponsorUrl, <<"Acme">>), Ext(SharedDateUrl, <<"2024-02-02">>)>>,
     action |-> <<[id |-> "A1", action |-> <<>>]>>]

\* the keys of an Observation the decoder reads
ObservationKeys ==
    {"id", "subject", "code", "extension", "effectiveDateTime", "valueQuantity", "note",
     "performer"}

\* the resource without the keys outside present
Restrict(resource, present) == [k \in DOMAIN resource \cap present |-> resource[k]]

SparseResources ==
    {[kind |-> "Observation", value |-> Restrict(BaseObservation, present)] :
        present \in SUBSET ObservationKeys}
    \cup {[kind |-> "Device", value |-> Restrict(BaseDevice, present)] :
              present \in SUBSET DOMAIN BaseDevice}
    \cup {[kind |-> "PlanDefinition", value |-> Restrict(BasePlanDefinition, present)] :
              present \in SUBSET DOMAIN BasePlanDefinition}

\* the three historical encodings of a batch's protocol reference
ProtocolEncodings == {"identifier", "extension", "nested"}

\* a stored Device whose protocol reference is held, under each encoding of
\* the set used, as the protocol id given for that encoding
LegacyDevice(used, protocol_id) ==
    [resourceType |-> "Device", id |-> "D1",
     identifier |-> IF "identifier" \in used THEN <<protocol_id["identifier"]>> ELSE <<>>,
     extension |->
        (IF "nested" \in used
         THEN <<[url |-> BatchProtocolUrl, value |-> <<>>,
                 extension |-> <<Ext("reference",
                                     Ref("PlanDefinition", protocol_id["nested"]))>>]>>
         ELSE <<>>)
        \o (IF "extension" \in used
            THEN <<Ext(BatchProtocolUrl, Ref("PlanDefinition", protocol_id["extension"]))>>
            ELSE <<>>)]

LegacyDevices ==
    {LegacyDevice(used, protocol_id) :
        used \in SUBSET ProtocolEncodings, protocol_id \in [ProtocolEncodings -> {"P1", "P2"}]}

CodecResources ==
    {[kind |-> "Device", value |-> d] : d \in LegacyDevices}
    \cup {[kind |-> "Observation", value |-> WithJsonText(BaseObservation, u, text)] :
              u \in ObservationJsonUrls, text \in JsonTexts}
    \cup {[kind |-> "ActivityDefinition", value |-> WithJsonText(BaseTestDefinition, u, text)] :
              u \in TestDefinitionJsonUrls, text \in JsonTexts}
    \cup SparseResources

InitCodec ==
    /\ SponsorInit /\ CroEmpty /\ RegEmpty
    /\ codec_decoded = NoValue
    /\ \/ /\ codec_resource = NoValue
          /\ codec_entity \in {[kind |-> "TestResult", value |-> r] : r \in TestResultValues}
                               \cup {[kind |-> "Batch", value |-> b] : b \in BatchValues}
       \/ /\ codec_entity = NoValue
          /\ codec_resource \in CodecResources

NextCodec ==
    \/ EncodeTestResult
    \/ DecodeObservation
    \/ EncodeBatch
    \/ DecodeDevice
    \/ DecodeTestDefinition
    \/ DecodePlanDefinition

SpecCodec == InitCodec /\ [][NextCodec]_vars

\* every field of a TestResult but its id
TestResultFields ==
    {"protocol_id", "batch_id", "test_definition_id", "timepoint_id", "timepoint_title",
     "result_date", "result_time", "result_value", "result_unit", "notes", "status",
     "performed_by", "share_with_sponsor", "sponsor_id", "parameter_results",
     "criteria_results", "result_details"}

\* C15: a TestResult that was encoded, given an id and decoded again equals
\* the TestResult that was encoded on every field other than id
C15_TestResultRoundTrip ==
    (codec_entity.kind = "TestResult" /\ codec_decoded.kind = "TestResult") =>
        \A f \in TestResultFields : codec_decoded.value[f] = codec_entity.value[f]

\* C16: a Batch that was encoded, given an id and decoded again equals the
\* Batch that was encoded on protocol_id, batch_number, manufacture_date,
\* quantity and status
C16_BatchRoundTrip ==
    (codec_entity.kind = "Batch" /\ codec_decoded.kind = "Batch") =>
        \A f \in {"protocol_id", "batch_number", "manufacture_date", "quantity", "status"} :
            codec_decoded.value[f] = codec_entity.value[f]

\* C17: a Device that holds its protocol reference under exactly one of the
\* three encodings decodes to a Batch with that protocol id, whichever
\* encoding it is
C17_AnyEncodingDecodes ==
    \A enc \in ProtocolEncodings :
        (/\ codec_decoded.kind = "Batch"
         /\ codec_resource = [kind |-> "Device",
                              value |-> LegacyDevice({enc}, [e \in ProtocolEncodings |-> "P1"])]) =>
            codec_decoded.value.protocol_id = "P1"

\* C18: an Observation (a test definition) one of whose JSON extensions holds
\* text that is no JSON decodes without an error, to the TestResult (the test)
\* that the same resource with a well-formed extension decodes to, except
\* that the field of that extension is the empty mapping
C18_MalformedJsonTolerated ==
    \A text \in MalformedJson :
        /\ \A u \in ObservationJsonUrls :
              (/\ codec_decoded # NoValue
               /\ codec_resource = [kind |-> "Observation",
                                    value |-> WithJsonText(BaseObservation, u, text)]) =>
                  codec_decoded =
                      [kind |-> "TestResult",
                       value |-> [convert_observation_to_test_result(BaseObservation)
                                      EXCEPT ![JsonField(u)] = EmptyDict]]
        /\ \A u \in TestDefinitionJsonUrls :
              (/\ codec_decoded # NoValue
               /\ codec_resource = [kind |-> "ActivityDefinition",
                                    value |-> WithJsonText(BaseTestDefinition, u, text)]) =>
                  codec_decoded =
                      [kind |-> "Test",
                       value |-> [protocol_test(BaseTestDefinition)
                                      EXCEPT ![JsonField(u)] = EmptyDict]]

\* an Observation with a malformed criteria-results extension has been decoded
C18_Witness ==
    /\ codec_resource = [kind |-> "Observation",
                         value |-> WithJsonText(BaseObservation, CriteriaResultsUrl,
                                                "{assay: 99.1")]
    /\ codec_decoded.kind = "TestResult"
    /\ codec_decoded.value.criteria_results = EmptyDict
    /\ codec_decoded.value.parameter_results = <<{<<"assay", "99.1">>}>>

\* the key of the resource a decoded field is read from ("none": from no key)
FeedingKey(kind, f) ==
    IF f = "id" THEN "id"
    ELSE IF kind = "Observation"
    THEN CASE f = "batch_id" -> "subject"
           [] f = "test_definition_id" -> "code"
           [] f \in {"result_date", "result_time"} -> "effectiveDateTime"
           [] f \in {"result_value", "result_unit"} -> "valueQuantity"
           [] f = "notes" -> "note"
           [] f = "performed_by" -> "performer"
           [] f \in {"status", "sponsor_id"} -> "none"
           [] OTHER -> "extension"
    ELSE IF kind = "Device"
    THEN CASE f = "protocol_id" -> "identifier"
           [] f = "batch_number" -> "deviceName"
           [] f = "manufacture_date" -> "manufactureDate"
           [] f = "quantity" -> "extension"
           [] f = "status" -> "status"
    ELSE IF f \in {"sponsor", "shared_date"} THEN "extension" ELSE f

\* the decoded fields whose default in the code is a placeholder text
Placeholders ==
    {<<"Observation", "performed_by">>, <<"Device", "batch_number">>, <<"Device", "status">>,
     <<"PlanDefinition", "title">>, <<"PlanDefinition", "sponsor">>,
     <<"PlanDefinition", "status">>}

\* the value a decoded field takes when the key it is read from is absent
CodeDefault(kind, f) ==
    CASE <<kind, f>> = <<"Observation", "performed_by">> -> "Unknown"
      [] <<kind, f>> = <<"Device", "batch_number">> -> "Unknown Batch"
      [] <<kind, f>> = <<"Device", "status">> -> "registered"
      [] <<kind, f>> = <<"PlanDefinition", "title">> -> "Untitled Protocol"
      [] <<kind, f>> = <<"PlanDefinition", "sponsor">> -> "Unknown"
      [] <<kind, f>> = <<"PlanDefinition", "status">> -> "unknown"
      [] f \in {"result_date", "manufacture_date", "shared_date"} -> Now
      [] f = "result_time" -> NowTime
      [] f = "quantity" -> 0
      [] f = "share_with_sponsor" -> FALSE
      [] f \in {"parameter_results", "criteria_results", "result_details"} -> EmptyDict
      [] f = "action" -> <<>>
      [] f \in {"batch_id", "timepoint_id", "timepoint_title", "description"} -> None
      [] <<kind, f>> = <<"Observation", "protocol_id">> -> None
      [] OTHER -> ""

\* the same, with the empty string where the code has a placeholder text
EmptyDefault(kind, f) == IF <<kind, f>> \in Placeholders THEN "" ELSE CodeDefault(kind, f)

FullyDecoded(kind) ==
    CASE kind = "Observation" -> convert_observation_to_test_result(BaseObservation)
      [] kind = "Device" -> convert_device_to_batch(BaseDevice)
      [] kind = "PlanDefinition" -> convert_plandefinition_to_protocol(BasePlanDefinition)

EntityOf(kind) ==
    CASE kind = "Observation" -> "TestResult"
      [] kind = "Device" -> "Batch"
      [] kind = "PlanDefinition" -> "Protocol"

\* what decoding the base resource cut down to the keys present gives, when
\* an absent key gives its fields the value Default
Expected(kind, present, Default(_, _)) ==
    LET full == FullyDecoded(kind)
    IN [f \in DOMAIN full |->
            IF FeedingKey(kind, f) \in present \cup {"none"} THEN full[f]
            ELSE Default(kind, f)]

---------------------------------------------------------------------------
(* Organizations in both backends: update and delete *)

OrganizationApiKeyUrl == "http://example.org/fhir/StructureDefinition/organization-api-key"
OrganizationTypeUrl == "http://example.org/fhir/StructureDefinition/organization-type"
OrganizationUrlUrl == "http://example.org/fhir/StructureDefinition/organization-url"
OrganizationRegionUrl == "http://example.org/fhir/StructureDefinition/organization-region"

\* an Organization as a repository may hold it: besides what the backends
\* write it has an identifier, a tag and an extension of another system
RegisteredOrganization(id) ==
    [resourceType |-> "Organization", id |-> id, name |-> "Partner", active |-> TRUE,
     identifier |-> <<"reg-" \o id>>, hasMeta |-> TRUE, tag |-> <<"partner">>,
     telecom |-> <<[system |-> "url", value |-> "http://partner/fhir", use |-> "work"]>>,
     extension |-> <<Ext(OrganizationTypeUrl, <<"cro">>),
                     Ext(OrganizationRegionUrl, <<"EU">>),
                     Ext(OrganizationApiKeyUrl, <<"key-0">>)>>]

ManagedOrganizationIds == {"O1"}

\* CRO backend: the Organization model of a PUT /organizations/{org_id}
CroOrganizations ==
    [name : {"Partner", "Renamed"}, type : {"sponsor"}, fhir_server_url : {"http://partner/fhir"},
     api_key : {None, "key-9"}, status : {"active"}, description : {None}]

convert_organization_to_fhir(organization) ==
    [resourceType |-> "Organization", name |-> organization.name,
     active |-> (organization.status = "active"),
     telecom |-> <<[system |-> "url", value |-> organization.fhir_server_url, use |-> "work"]>>,
     extension |->
        <<Ext(OrganizationTypeUrl, <<organization.type>>)>> \o
        (IF Truthy(organization.api_key)
         THEN <<Ext(OrganizationApiKeyUrl, <<organization.api_key>>)>> ELSE <<>>)]
    @@ (IF Truthy(organization.description)
        THEN ("description" :> organization.description) ELSE <<>>)

\* PUT /organizations/{org_id} of the CRO backend: the fetched copy is not
\* used, the resource built from the request replaces the stored one
update_organization(org_id, organization, getUp, putOk) ==
    IF ~getUp \/ ~Stored("Organization", org_id)
    THEN /\ CroAnswers("update_organization", org_id, "readFails",
                       Reply(500, "FHIR server error", <<>>))
         /\ UNCHANGED croFhir
    ELSE IF ~putOk
    THEN /\ CroAnswers("update_organization", org_id, "writeFails",
                       Reply(500, "FHIR server error", <<>>))
         /\ UNCHANGED croFhir
    ELSE LET fhir_organization == ("id" :> org_id) @@ convert_organization_to_fhir(organization)
         IN /\ croFhir' = Put(croFhir, "Organization", org_id, fhir_organization)
            /\ CroAnswers("update_organization", org_id, "ok",
                          Reply(200, "", <<("id" :> org_id) @@ organization>>))

\* DELETE /organizations/{org_id} of the CRO backend: the organization is
\* fetched, then deleted; when the delete is rejected the fetched copy is put
\* back with active = False, and the call fails if that is rejected too
delete_organization(org_id, getUp, deleteOk, putOk) ==
    IF ~getUp \/ ~Stored("Organization", org_id)
    THEN /\ CroAnswers("delete_organization", org_id, "readFails",
                       Reply(500, "FHIR server error", <<>>))
         /\ UNCHANGED croFhir
    ELSE IF deleteOk
    THEN /\ croFhir' = Remove(croFhir, "Organization", org_id)
         /\ CroAnswers("delete_organization", org_id, "ok",
                       Reply(200, "deleted successfully", <<>>))
    ELSE IF putOk
    THEN /\ croFhir' = Put(croFhir, "Organization", org_id,
                           [croFhir["Organization"][org_id] EXCEPT !.active = FALSE])
         /\ CroAnswers("delete_organization", org_id, "deleteRejected",
                       Reply(200, "marked as inactive", <<>>))
    ELSE /\ CroAnswers("delete_organization", org_id, "writeFails",
                       Reply(500, "Failed to delete organization", <<>>))
         /\ UNCHANGED croFhir

CroUpdateOrganization(org_id, organization, getUp, putOk) ==
    /\ update_organization(org_id, organization, getUp, putOk)
    /\ UNCHANGED <<croNextId, forwarded, spVars, shareVars, regVars, codecVars>>

CroDeleteOrganization(org_id, getUp, deleteOk, putOk) ==
    /\ delete_organization(org_id, getUp, deleteOk, putOk)
    /\ UNCHANGED <<croNextId, forwarded, spVars, shareVars, regVars, codecVars>>

\* Sponsor backend: the OrganizationCreate model of a PUT /organizations/{org_id}
OrganizationUrls == {"partner:8001/fhir", "http://partner9/fhir", " "}

OrganizationCreates ==
    [name : {"Renamed"}, url : OrganizationUrls, api_key : {None, "key-9"},
     organization_type : {None}]

\* url.strip(): of the urls above only the blank one has surrounding blanks
Strip(url) == IF url = " " THEN "" ELSE url

\* url.startswith('http://') or url.startswith('https://')
HasScheme(url) == url \in {"http://partner9/fhir"}

NormalizedUrl(url) == IF HasScheme(Strip(url)) THEN Strip(url) ELSE "http://" \o Strip(url)

OrDefault(value, default) == IF Truthy(value) THEN value ELSE default

\* the fetched organization with the request's fields written into it: the
\* name, and the url, api-key and type extensions (updated in place, or
\* appended in this order when missing)
PatchedOrganization(existing_org, organization) ==
    LET url == NormalizedUrl(organization.url)
        api_key == OrDefault(organization.api_key, "")
        org_type == OrDefault(organization.organization_type, "sponsor")
        old == Get(existing_org, "extension", <<>>)
        updated == [k \in 1..Len(old) |->
                       IF old[k].url = OrganizationUrlUrl THEN Ext(old[k].url, <<url>>)
                       ELSE IF old[k].url = OrganizationApiKeyUrl THEN Ext(old[k].url, <<api_key>>)
                       ELSE IF old[k].url = OrganizationTypeUrl THEN Ext(old[k].url, <<org_type>>)
                       ELSE old[k]]
        Missing(u, v) == IF \E k \in 1..Len(old) : old[k].url = u THEN <<>> ELSE <<Ext(u, v)>>
    IN ("name" :> organization.name) @@
       ("extension" :> (updated \o Missing(OrganizationUrlUrl, <<url>>)
                                \o Missing(OrganizationApiKeyUrl, <<api_key>>)
                                \o Missing(OrganizationTypeUrl, <<org_type>>))) @@
       existing_org

\* PUT /organizations/{org_id} of the sponsor backend
sponsor_update_organization(org_id, organization, getUp, putOk) ==
    IF Strip(organization.url) = ""
    THEN /\ SponsorAnswers("update_organization", org_id, "ok", 400, <<>>)
         /\ UNCHANGED spOrganization
    ELSE IF ~getUp \/ org_id \notin DOMAIN spOrganization
    THEN /\ SponsorAnswers("update_organization", org_id, "readFails", 500, <<>>)
         /\ UNCHANGED spOrganization
    ELSE IF ~putOk
    THEN /\ SponsorAnswers("update_organization", org_id, "writeFails", 500, <<>>)
         /\ UNCHANGED spOrganization
    ELSE LET updated_org == PatchedOrganization(spOrganization[org_id], organization)
         IN /\ spOrganization' = [spOrganization EXCEPT ![org_id] = updated_org]
            /\ SponsorAnswers("update_organization", org_id, "ok", 200, <<updated_org>>)

\* DELETE /organizations/{org_id} of the sponsor backend: a rejected delete,
\* of a missing organization too (an error response is falsy, so the 404
\* branch is never taken), is a 500
sponsor_delete_organization(org_id, deleteOk) ==
    IF org_id \notin DOMAIN spOrganization
    THEN /\ SponsorAnswers("delete_organization", org_id, "notFound", 500, <<>>)
         /\ UNCHANGED spOrganization
    ELSE IF deleteOk
    THEN /\ spOrganization' = [o \in (DOMAIN spOrganization) \ {org_id} |-> spOrganization[o]]
         /\ SponsorAnswers("delete_organization", org_id, "ok", 200, <<>>)
    ELSE /\ SponsorAnswers("delete_organization", org_id, "deleteRejected", 500, <<>>)
         /\ UNCHANGED spOrganization

SponsorUpdateOrganization(org_id, organization, getUp, putOk) ==
    /\ sponsor_update_organization(org_id, organization, getUp, putOk)
    /\ UNCHANGED <<spPlanDefinition, spActivityDefinition, spMedication, created_batches,
                   pc, share_request, protocol_load, existing_protocol, share_results,
                   batch_errors, outcomes, sent, croVars, regVars, codecVars>>

SponsorDeleteOrganization(org_id, deleteOk) ==
    /\ sponsor_delete_organization(org_id, deleteOk)
    /\ UNCHANGED <<spPlanDefinition, spActivityDefinition, spMedication, created_batches,
                   pc, share_request, protocol_load, existing_protocol, share_results,
                   batch_errors, outcomes, sent, croVars, regVars, codecVars>>

InitOrganizations ==
    /\ spPlanDefinition = [p \in {"P1"} |-> InitialProtocol(TRUE)]
    /\ spActivityDefinition = InitialTests
    /\ spMedication = InitialBatches
    /\ spOrganization = [o \in ManagedOrganizationIds |-> RegisteredOrganization(o)]
    /\ created_batches = <<>>
    /\ ShareIdle
    /\ croFhir = [t \in ResourceTypes |->
                     IF t = "Organization"
                     THEN [o \in ManagedOrganizationIds |-> RegisteredOrganization(o)]
                     ELSE <<>>]
    /\ croNextId = 1
    /\ forwarded = {}
    /\ croResponse = NoCall
    /\ RegEmpty
    /\ CodecIdle

NextOrganizations ==
    \/ \E org_id \in ManagedOrganizationIds, organization \in CroOrganizations,
          getUp \in BOOLEAN, putOk \in BOOLEAN :
            CroUpdateOrganization(org_id, organization, getUp, putOk)
    \/ \E org_id \in ManagedOrganizationIds, getUp \in BOOLEAN, deleteOk \in BOOLEAN,
          putOk \in BOOLEAN :
            CroDeleteOrganization(org_id, getUp, deleteOk, putOk)
    \/ \E org_id \in ManagedOrganizationIds, organization \in OrganizationCreates,
          getUp \in BOOLEAN, putOk \in BOOLEAN :
            SponsorUpdateOrganization(org_id, organization, getUp, putOk)
    \/ \E org_id \in ManagedOrganizationIds, deleteOk \in BOOLEAN :
            SponsorDeleteOrganization(org_id, deleteOk)

SpecOrganizations == InitOrganizations /\ [][NextOrganizations]_vars

\* C22: when the repository rejects the hard delete of an existing
\* organization (and would accept an update), delete_organization of either
\* backend answers 200 and leaves the organization stored with active = false.
C22_RejectedDeleteMarksInactive ==
    /\ (croResponse.op = "delete_organization" /\ croResponse.fhir = "deleteRejected") =>
          /\ croResponse.status = 200
          /\ Stored("Organization", croResponse.id)
          /\ croFhir["Organization"][croResponse.id].active = FALSE
    /\ (Get(response, "op", "none") = "delete_organization" /\ response.fhir = "deleteRejected") =>
          /\ response.status = 200
          /\ response.protocol_id \in DOMAIN spOrganization
          /\ spOrganization[response.protocol_id].active = FALSE

\* the parts of an Organization no update request carries: its identifiers,
\* its tags and the extensions of other systems
OrganizationRest(org) ==
    [identifier |-> Get(org, "identifier", <<>>),
     tag |-> Get(org, "tag", <<>>),
     extension |-> SelectSeq(Get(org, "extension", <<>>),
                             LAMBDA e : e.url \notin {OrganizationApiKeyUrl, OrganizationTypeUrl,
                                                      OrganizationUrlUrl})]

\* C24: a successful update_organization, of either backend, leaves the
\* identifiers, the tags and the unrelated extensions of the stored
\* organization as they were before the update.
C24_UpdateKeepsTheRest ==
    [][/\ (croResponse'.op = "update_organization" /\ croResponse'.status = 200) =>
             OrganizationRest(croFhir'["Organization"][croResponse'.id])
                 = OrganizationRest(croFhir["Organization"][croResponse'.id])
       /\ (Get(response', "op", "none") = "update_organization" /\ response'.status = 200) =>
             OrganizationRest(spOrganization'[response'.protocol_id])
                 = OrganizationRest(spOrganization[response'.protocol_id])]_vars

---------------------------------------------------------------------------
(* Sponsor to CRO: a share whose bundle is served by the CRO middleware *)

CroMiddlewarePath == "/sponsor/shared-resources"

\* bundle["entry"]: the protocol, the tests, the batches, then the
\* referenced resources
BundleEntries(submission) ==
    <<submission.protocol>> \o submission.tests \o submission.batches
        \o submission.organizations

\* the writes the CRO's repository turns down: none, the protocol's, all
FailedWrites == {{}, {1}, 1..6}

\* what the sponsor makes of the status of the POST
OutcomeOfStatus(status) == IF status >= 200 /\ status < 300 THEN "ok" ELSE "reject"

\* the bundle the sponsor would post for its next target, if that goes to the
\* CRO middleware
NextCroBundle ==
    IF pc = "targets" /\ Len(share_results) < Len(share_request.organization_ids)
    THEN LET org_id == share_request.organization_ids[Len(share_results) + 1]
             posted == ProcessTarget(share_request, org_id, "ok", existing_protocol).requests
         IN SelectSeq(posted, LAMBDA s : s.kind = "Bundle" /\ s.target = CroMiddlewarePath)
    ELSE <<>>

\* one iteration of the target loop whose POST reaches the CRO backend:
\* receive_shared_resources stores what the repository takes and answers 200
\* with the counts; the sponsor reads the status only
ShareTargetThroughCro(failed) ==
    /\ NextCroBundle # <<>>
    /\ LET org_id == share_request.organization_ids[Len(share_results) + 1]
           stored == StoreEntries(croFhir, BundleEntries(NextCroBundle[1]), 1, failed)
           reply == Reply(200, "Processed resources",
                          <<stored.success_count, stored.error_count>>)
           done == ProcessTarget(share_request, org_id, OutcomeOfStatus(reply.status),
                                 existing_protocol)
       IN /\ croFhir' = stored.fhir
          /\ CroAnswers("receive_shared_resources", "",
                        IF stored.error_count = 0 THEN "ok" ELSE "writeFails", reply)
          /\ share_results' = Append(share_results, done.entry)
          /\ existing_protocol' = done.protocol
          /\ sent' = sent \o done.requests
          /\ outcomes' = Append(outcomes, OutcomeOfStatus(reply.status))
    /\ UNCHANGED <<pc, share_request, protocol_load, batch_errors, response, spVars,
                   croNextId, forwarded, regVars, codecVars>>

\* an iteration that does not reach the CRO backend: another kind of target,
\* or a failure on the way
ShareTargetElsewhere(o) ==
    /\ o = "ok" => NextCroBundle = <<>>
    /\ ShareTarget(o)

\* the sponsor's repository assigns numeric ids: the protocol is stored as 7
ExchangeProtocolIds == {"7"}

ExchangeTests ==
    [t \in {"T1", "T2"} |->
        [resourceType |-> "ActivityDefinition", id |-> t,
         extension |-> <<Ext(StabilityTestProtocolUrl,
                             Ref("PlanDefinition", "7"))>>]]

\* whole-protocol shares to the CRO and to the plain FHIR server
ExchangeRequests ==
    [protocol_id : ExchangeProtocolIds,
     organization_ids : {<<"O1">>, <<"O2", "O1">>},
     share_mode : {"fullProtocol"},
     selected_tests : {{}},
     shareBatches : {TRUE},
     selectedBatches : {<<>>}]

\* the test definitions get_protocol_tests keeps: those that name the
\* protocol in the stability-test-protocol extension, in a protocol:<id> tag
\* or in a protocol identifier (no resource here has a useContext)
ReferencesProtocol(test_definition, protocol_id) ==
    \/ \E k \in 1..Len(Get(test_definition, "extension", <<>>)) :
          /\ test_definition.extension[k].url = StabilityTestProtocolUrl
          /\ test_definition.extension[k].value = Ref("PlanDefinition", protocol_id)
    \/ ("protocol:" \o protocol_id) \in Range(Get(test_definition, "tag", <<>>))
    \/ protocol_id \in Range(Get(test_definition, "identifier", <<>>))

\* the fallback when no test definition is found: the protocol's conditions
\* and their timepoints
ProtocolTimepoints(action) ==
    UNION {{[id |-> action[k].id, type |-> "protocol_test"]} \cup
           {[id |-> action[k].action[j], type |-> "protocol_timepoint",
             condition_id |-> action[k].id] : j \in 1..Len(action[k].action)} :
           k \in 1..Len(action)}

\* GET /protocols/{protocol_id}/tests of the CRO backend
get_protocol_tests(protocol_id, up) ==
    LET protocol == get_protocol(protocol_id, up)
        all == DOMAIN croFhir["ActivityDefinition"]
        tagged == {t \in all : ("protocol:" \o protocol_id)
                                  \in Range(Get(croFhir["ActivityDefinition"][t], "tag", <<>>))}
        entries == IF tagged # {} THEN tagged ELSE all
        tests == {protocol_test(croFhir["ActivityDefinition"][t]) :
                    t \in {e \in entries :
                              ReferencesProtocol(croFhir["ActivityDefinition"][e], protocol_id)}}
    IN IF protocol.status # 200 THEN protocol
       ELSE IF tests = {} THEN Reply(200, "", ProtocolTimepoints(protocol.body[1].action))
       ELSE Reply(200, "", tests)

GetProtocolTests(protocol_id, up) ==
    /\ CroAnswers("get_protocol_tests", protocol_id, Reads(up),
                  get_protocol_tests(protocol_id, up))
    /\ UNCHANGED <<croFhir, croNextId, forwarded, spVars, shareVars, regVars, codecVars>>

InitExchange ==
    /\ spPlanDefinition = [p \in ExchangeProtocolIds |-> [InitialProtocol(TRUE) EXCEPT !.id = p]]
    /\ spActivityDefinition = ExchangeTests
    /\ spMedication = InitialBatches
    /\ spOrganization = InitialOrganizations
    /\ created_batches = <<>>
    /\ ShareIdle
    /\ CroEmpty
    /\ RegEmpty
    /\ CodecIdle

NextExchange ==
    \/ \E req \in ExchangeRequests : ShareBegin(req, "ok", TRUE, {})
    \/ \E protocol_id \in {"7", "id-7"}, up \in BOOLEAN : GetProtocolTests(protocol_id, up)
    \/ \E failed \in FailedWrites : ShareTargetThroughCro(failed)
    \/ \E o \in TargetOutcomes : ShareTargetElsewhere(o)
    \/ ShareReturn
    \/ ShareEnd

SpecExchange == InitExchange /\ [][NextExchange]_vars

\* C27: a target reported with success = true whose bundle went to the CRO
\* middleware has the protocol stored in the CRO's repository.
C27_SuccessMeansStored ==
    \A k \in 1..Len(share_results) :
        (/\ share_results[k].success
         /\ \E j \in 1..Len(sent) : /\ sent[j].to = share_results[k].organization_id
                                    /\ sent[j].target = CroMiddlewarePath)
        => Stored("PlanDefinition", StoredId(share_request.protocol_id))

\* C28: get_protocol_tests for the id under which a protocol is stored on the
\* CRO returns every stored test definition that was shared as a test of
\* that protocol; a protocol P with an all-digit id is stored under id-P.
C28_BackReferencesResolve ==
    (croResponse.op = "get_protocol_tests" /\ croResponse.status = 200) =>
        \A t \in DOMAIN croFhir["ActivityDefinition"], p \in ExchangeProtocolIds :
            (/\ StoredId(p) = croResponse.id
             /\ t \in DOMAIN spActivityDefinition
             /\ IsForProtocol(spActivityDefinition[t], p))
            => \E x \in croResponse.body : x.id = t /\ x.type = "Unknown"

---------------------------------------------------------------------------
(* CRO backend: the list of batches *)

\* the protocol a Device belongs to as the filter of get_batches reads it:
\* the batch-protocol extension first, the protocol identifier after it
DeviceProtocolId(device) ==
    LET refs == SelectSeq(Get(device, "extension", <<>>),
                          LAMBDA e : /\ e.url = BatchProtocolUrl
                                     /\ e.value # <<>>
                                     /\ e.value[1] = "PlanDefinition")
        identifier == Get(device, "identifier", <<>>)
    IN IF refs # <<>> THEN refs[1].value[2]
       ELSE IF identifier # <<>> THEN identifier[1]
       ELSE None

DeviceShared(device) ==
    \/ HasTag(device, SharedBatchTag)
    \/ HasExt(device, BatchSharedWithCroUrl)
    \/ HasExt(device, BatchSharedWithOrganizationsUrl)

\* GET /batches of the CRO backend, protocol_id being None or a protocol id:
\* the shared Devices, then the Medications tagged shared-batch; a failing
\* search is logged and leaves its half out
cro_get_batches(protocol_id, deviceUp, medicationUp) ==
    LET devices == IF deviceUp THEN DOMAIN croFhir["Device"] ELSE {}
        medications == IF medicationUp
                       THEN {m \in DOMAIN croFhir["Medication"] :
                                HasTag(croFhir["Medication"][m], SharedBatchTag)}
                       ELSE {}
        Wanted(found) == ~Truthy(protocol_id) \/ found = protocol_id
    IN Reply(200, "",
             {convert_device_to_batch(croFhir["Device"][d]) :
                 d \in {x \in devices : /\ DeviceShared(croFhir["Device"][x])
                                        /\ Wanted(DeviceProtocolId(croFhir["Device"][x]))}}
             \cup
             {MedicationAsBatch(croFhir["Medication"][m]) :
                 m \in {x \in medications :
                          Wanted(IF croFhir["Medication"][x].identifier # <<>>
                                 THEN croFhir["Medication"][x].identifier[1] ELSE None)}})

CroGetBatches(protocol_id, deviceUp, medicationUp) ==
    /\ CroAnswers("get_batches", protocol_id, Reads(deviceUp /\ medicationUp),
                  cro_get_batches(protocol_id, deviceUp, medicationUp))
    /\ UNCHANGED <<croFhir, croNextId, forwarded, spVars, shareVars, regVars, codecVars>>

\* shared batches as they arrive: a legacy Device that names P1 in its
\* batch-protocol extension and P2 in its protocol identifier, a Medication
\* of P1, a Device of P2 and one that is not shared
BatchBundles ==
    {[resourceType |-> "Bundle",
      entry |-> <<[Batch("Device", "D-both", <<SharedBatchTag>>,
                         <<Ext(BatchProtocolUrl, Ref("PlanDefinition", "P1"))>>)
                      EXCEPT !.identifier = <<"P2">>],
                  [Batch("Medication", "M-1", <<SharedBatchTag>>, <<>>)
                      EXCEPT !.identifier = <<"P1">>]>>],
     [resourceType |-> "Bundle",
      entry |-> <<[Batch("Device", "D-id", <<SharedBatchTag>>, <<>>)
                      EXCEPT !.identifier = <<"P2">>],
                  [Batch("Device", "D-none", <<>>, <<>>) EXCEPT !.identifier = <<"P1">>]>>],
     [resourceType |-> "Bundle",
      entry |-> <<[Batch("Device", "D-ext", <<>>,
                         <<Ext(BatchSharedWithCroUrl, <<"true">>),
                           Ext(BatchProtocolUrl, Ref("PlanDefinition", "P1"))>>)
                      EXCEPT !.identifier = <<>>],
                  [Batch("Medication", "M-2", <<SharedBatchTag>>, <<>>)
                      EXCEPT !.identifier = <<"P2">>]>>]}

NextCroBatches ==
    \/ \E bundle \in BatchBundles, failed \in SUBSET (1..2) :
            receive_shared_resources(bundle, failed)
    \/ \E protocol_id \in {None, "P1", "P2"}, deviceUp \in BOOLEAN, medicationUp \in BOOLEAN :
            CroGetBatches(protocol_id, deviceUp, medicationUp)

SpecCroBatches == Init /\ [][NextCroBatches]_vars

\* C30: every batch in the answer of get_batches(protocol_id = P) has
\* protocol_id = P.
C30_ListedBatchesOfProtocol ==
    (croResponse.op = "get_batches" /\ Truthy(croResponse.id)) =>
        \A batch \in croResponse.body : batch.protocol_id = croResponse.id

====
